---- MODULE Spec2Model ----
(***************************************************************************)
(* FiloDB storage core: the copy-on-write B+ tree (BTree), the free list   *)
(* (FreeList), the KV transaction layer (KV, KVTX, KVReader) and the       *)
(* master page (masterLoad / masterStore).                                 *)
(*                                                                         *)
(* Abstractions.  A key is its rank in byte order (0 is the empty key), a  *)
(* value is an identifier (0 is the empty value); KeyLen and ValLen give   *)
(* their byte lengths, from which nbytes is computed as the node codec     *)
(* computes it.  A page is the decoded form of its 4096 bytes.  The file   *)
(* and the shared mapping of it are one store (pages): a write through the *)
(* mapping is what every other mapping of the file reads.  A Go panic that *)
(* nothing recovers ends the process (proc = "panicked").                  *)
(***************************************************************************)
EXTENDS Integers, Sequences, FiniteSets, TLC

Max(a, b) == IF a > b THEN a ELSE b

Min(a, b) == IF a < b THEN a ELSE b

\* ---------------------------------------------------------------- bounds
\* keys and values of the tree specification
MaxKey == 2
MaxVal == 2
\* keys and values the transactions write
MaxTxKey == 1
MaxTxVal == 1
\* write transactions begun, Set/Delete calls made, I/O failures injected
\* and process stops, over a whole behaviour
MaxTx == 3
MaxOps == 4
MaxFail == 1
MaxCrash == 1
\* write transactions begun and Set calls made in the lock specification
MaxLockTx == 2
MaxLockOps == 2
\* write transactions begun and BTree.Insert calls made in the
\* specification of the size limits
MaxSizeTx == 1
MaxSizeOps == 2
\* the largest row number and the number of strings in the rows of the tables
MaxId == 1
MaxStr == 2
MaxPrefixes == 5
\* the largest type number and primary key count of a table definition
MaxType == 6
MaxPKeys == 2
\* write transactions begun in the specification of the record shapes
MaxTypesTx == 1
\* indexes of a table and columns of a query given to findIndex
MaxIndexes == 2
MaxQueryCols == 2
\* bytes of a string given to encodeValues
MaxStrLen == 2
\* file sizes (in pages) and master page fields of the files Open is given
MaxFilePages == 2
MaxField == 2
\* write transactions begun and Set/Delete calls made in the specification
\* of the appended pages
MaxAppendTx == 2
MaxAppendOps == 3
\* tasks given to the worker pool, and the maxWorkers given to NewPool
MaxTasks == 4
MaxWorkers == 2

\* ------------------------------------------------------ program constants
BTREE_PAGE_SIZE == 4096
BTREE_MAX_KEY_SIZE == 1000
BTREE_MAX_VAL_SIZE == 3000
HEADER == 4
BNODE_INODE == 1
BNODE_LEAF == 2
FREE_LIST_HEADER == 4 + 8 + 8
FREE_LIST_CAP == (BTREE_PAGE_SIZE - FREE_LIST_HEADER) \div 8

Keys == 1..Max(MaxKey, MaxTxKey)
Vals == 1..Max(MaxVal, MaxTxVal)
TxKeys == 1..MaxTxKey
TxVals == 1..MaxTxVal
Writers == {"w1", "w2"}
Readers == {"r1"}
\* a Set/Delete call appends at most two pages (a leaf and a list node);
\* the page count advances by all the appended pages of the transaction at
\* every call, and once more at Commit; the catalog takes two transactions
\* of two calls each before that
MaxPage == MaxOps * (MaxOps + 3) + 2 * (2 * (2 + 3)) + 1
PageNos == 1..MaxPage

\* a key one byte longer than BTREE_MAX_KEY_SIZE and a value one byte
\* longer than BTREE_MAX_VAL_SIZE
LongKey == 99999
LongVal == 99999
\* byte length of a key: the empty key has none, every other key 8 bytes
KeyLen(k) ==
    IF k = 0 THEN 0 ELSE IF k = LongKey THEN BTREE_MAX_KEY_SIZE + 1 ELSE 8
\* byte length of a value: the values with an even identifier have the
\* maximum size, the others are short
ValLen(v) ==
    IF v = 0 THEN 0
    ELSE IF v = LongVal THEN BTREE_MAX_VAL_SIZE + 1
    ELSE IF v % 2 = 0 THEN BTREE_MAX_VAL_SIZE ELSE 16

\* a nil page of the dirty map (a deallocated page): every access panics
Nil == [type |-> -1, kvs |-> <<>>, total |-> 0, next |-> 0, ptrs |-> <<>>]
\* a freshly made page: make([]byte, BTREE_PAGE_SIZE)
ZeroPage == [type |-> 0, kvs |-> <<>>, total |-> 0, next |-> 0, ptrs |-> <<>>]
\* page 0 read as a node: its first two bytes are the signature's
MasterAsNode == [type |-> 99, kvs |-> <<>>, total |-> 0, next |-> 0, ptrs |-> <<>>]

VARIABLES
    proc,     \* "closed", "running", "failed" (Open returned an error), "panicked"
    file,     \* the database file: size and the master page prefix
    pages,    \* the pages 1..MaxPage of the file, as the mapping shows them
    kv,       \* struct KV
    writer,   \* kv.writer: the holder of the writer lock, or "none"
    wpc,      \* the position of each writing thread
    tx,       \* the KVTX of each writing thread
    reader,   \* the KVReader of each reading thread
    hist,     \* history: the key/value state published at each version
    lastOp,   \* history: the last operation and its outcome
    atBegin,  \* history: what was published when the transaction began
    lastPop,  \* history: the pages FreeList.Pop handed out and pageAppend
              \* appended in the last call, and all the pages appended so far
    freedAt,  \* history: the writer version at which a page was last freed
    durable,  \* history: the states a reopen may show
    lastMeta, \* history: the metadata of the last successful commit
    expect,   \* history: the pairs put into the tree of the transaction
    used,     \* transactions, calls, failures and stops so far
    db,       \* struct DB: the cached table definitions, and the position
              \* of the thread inside a call that writes more than once
    res,      \* the last call of the tree, record and table interfaces:
              \* its inputs and what it returned
    rows      \* history: the rows put into each table, by the transaction
              \* and by the commits, and the committed ones when a reader began

vars == <<proc, file, pages, kv, writer, wpc, tx, reader, hist, lastOp,
          atBegin, lastPop, freedAt, durable, lastMeta, expect, used, db, res,
          rows>>

\* ------------------------------------------------------------ node codec
IsTreeNode(node) == node.type \in {BNODE_INODE, BNODE_LEAF}

\* bytes 2..4 of a page: the key count of a tree node, the size of a
\* free-list node
nKeys(node) == IF IsTreeNode(node) THEN Len(node.kvs) ELSE Len(node.ptrs)

RECURSIVE kvBytes(_)
kvBytes(kvs) ==
    IF kvs = <<>> THEN 0
    ELSE 4 + KeyLen(kvs[1].key) + ValLen(kvs[1].val) + kvBytes(Tail(kvs))

\* node.kvPos(node.nKeys())
nbytes(node) == HEADER + 8 * Len(node.kvs) + 2 * Len(node.kvs) + kvBytes(node.kvs)

KV(key, val, ptr) == [key |-> key, val |-> val, ptr |-> ptr]

TreeNode(type, kvs) ==
    [type |-> type, kvs |-> kvs, total |-> 0, next |-> 0, ptrs |-> <<>>]

\* 0-based index of the last key <= key, scanning from index 1 and
\* stopping at the first greater key
RECURSIVE lookupFrom(_, _, _, _)
lookupFrom(kvs, key, i, found) ==
    IF i >= Len(kvs) THEN found
    ELSE IF kvs[i + 1].key <= key THEN lookupFrom(kvs, key, i + 1, i)
    ELSE found

nodeLookupLE(node, key) == lookupFrom(node.kvs, key, 1, 0)

\* the two assertions of nodeAppendRange
nodeAppendRangeOK(newKeys, oldKeys, dst, src, num) ==
    src + num <= oldKeys /\ dst + num <= newKeys

leafInsert(old, idx, key, val) ==
    TreeNode(BNODE_LEAF,
             SubSeq(old.kvs, 1, idx) \o <<KV(key, val, 0)>>
                 \o SubSeq(old.kvs, idx + 1, Len(old.kvs)))

leafUpdate(old, idx, key, val) ==
    TreeNode(BNODE_LEAF,
             SubSeq(old.kvs, 1, idx) \o <<KV(key, val, 0)>>
                 \o SubSeq(old.kvs, idx + 2, Len(old.kvs)))

leafDelete(old, idx) ==
    TreeNode(old.type,
             SubSeq(old.kvs, 1, idx) \o SubSeq(old.kvs, idx + 2, Len(old.kvs)))

\* nodeSplit2 appends into nodes whose header was never set (nKeys = 0), so
\* each nodeAppendRange with num > 0 fails its second assertion
nodeSplit2OK(old) ==
    LET midIndex == Len(old.kvs) \div 2
    IN  /\ nodeAppendRangeOK(0, Len(old.kvs), 0, 0, midIndex)
        /\ nodeAppendRangeOK(0, Len(old.kvs), 0, midIndex, Len(old.kvs) - 1)

\* [panic, nodes]: the nodes a node is split into
nodeSplit3(old) ==
    IF nbytes(old) <= BTREE_PAGE_SIZE
    THEN [panic |-> FALSE, nodes |-> <<old>>]
    ELSE IF ~nodeSplit2OK(old)
    THEN [panic |-> TRUE, nodes |-> <<>>]
    ELSE \* both ranges empty: left and right stay zeroed, left fits
         [panic |-> FALSE, nodes |-> <<ZeroPage, ZeroPage>>]

\* ------------------------------------------------------- page callbacks
\* KVReader.pageGetMapped: the page of the mapping
pageGetMapped(ptr) == IF ptr \in PageNos THEN pages[ptr] ELSE MasterAsNode

\* the pages of the tree below a page of the mapping
RECURSIVE treePages(_, _)
treePages(ptr, fuel) ==
    IF ptr = 0 \/ fuel = 0 THEN {}
    ELSE IF pageGetMapped(ptr).type = BNODE_INODE
    THEN {ptr} \cup UNION {treePages(pageGetMapped(ptr).kvs[i].ptr, fuel - 1) :
                               i \in 1..Len(pageGetMapped(ptr).kvs)}
    ELSE {ptr}

\* KVTX.pageGet: the dirty map first
pageGet(t, ptr) ==
    IF ptr \in DOMAIN t.updates THEN t.updates[ptr] ELSE pageGetMapped(ptr)

setUpdate(t, ptr, page) ==
    [t EXCEPT !.updates = [p \in (DOMAIN t.updates) \cup {ptr} |->
                              IF p = ptr THEN page ELSE t.updates[p]]]

pageDel(t, ptr) == setUpdate(t, ptr, Nil)

pageUse(t, ptr, node) == setUpdate(t, ptr, node)

pageAppend(t, node) ==
    LET ptr == t.nappend + kv.flushed
    IN  [setUpdate(t, ptr, node) EXCEPT !.nappend = @ + 1, !.ret = ptr,
                                        !.apps = Append(@, ptr)]

\* ------------------------------------------------------------- free list
flnSize(node) == nKeys(node)

flnNext(node) == node.next

\* the 8-byte word idx of the item area: flPush stores one pointer per word
flnPtr(node, idx) == IF idx < Len(node.ptrs) THEN node.ptrs[idx + 1] ELSE 0

\* flnItem reads a (pointer, version) pair: 16 bytes per item
flnItem(node, offset) ==
    [ptr |-> flnPtr(node, 2 * offset), ver |-> flnPtr(node, 2 * offset + 1)]

\* int64(u - ver) < 0; versions stay far below 2^63
versionBefore(u, ver) == u - ver < 0

RECURSIVE flChain(_, _, _)
flChain(t, curr, fuel) ==
    IF curr = 0 \/ fuel = 0 THEN <<>>
    ELSE <<curr>> \o flChain(t, flnNext(pageGet(t, curr)), fuel - 1)

Reverse(s) == [i \in 1..Len(s) |-> s[Len(s) + 1 - i]]

loadCache(t) ==
    IF Len(t.free.nodes) > 0 THEN t
    ELSE IF t.free.head = 0
    THEN [t EXCEPT !.free.total = 0, !.free.offset = 0]
    ELSE [t EXCEPT !.free.nodes = Reverse(flChain(t, t.free.head, MaxPage)),
                   !.free.total = flnSize(pageGet(t, t.free.head)),
                   !.free.offset = 0]

\* what the pop record of the call gains
Popped(pops, ptr) == IF ptr = 0 THEN pops ELSE Append(pops, ptr)

\* flPop1 on the item at the offset of the first cached node, of that size
flPop1Item(t, size, item) ==
    IF ~(t.free.offset < size) THEN [t EXCEPT !.panic = TRUE]
    ELSE IF versionBefore(t.free.minReader, item.ver)
    THEN [t EXCEPT !.ret = 0]
    ELSE IF t.free.offset + 1 >= size
    THEN [t EXCEPT !.free.nodes = Tail(@), !.free.offset = 0,
                   !.free.total = @ - 1, !.ret = item.ptr,
                   !.pops = Popped(@, item.ptr)]
    ELSE [t EXCEPT !.free.offset = @ + 1,
                   !.free.total = @ - 1, !.ret = item.ptr,
                   !.pops = Popped(@, item.ptr)]

flPop1(t) ==
    IF t.free.total = 0 THEN [t EXCEPT !.ret = 0]
    ELSE IF t.free.nodes = <<>> THEN [t EXCEPT !.panic = TRUE]
    ELSE flPop1Item(t, flnSize(pageGet(t, t.free.nodes[1])),
                    flnItem(pageGet(t, t.free.nodes[1]), t.free.offset))

Pop(t) == flPop1(loadCache(t))

RECURSIVE flTotalFrom(_, _, _)
flTotalFrom(t, nodeId, fuel) ==
    IF nodeId = 0 \/ fuel = 0 THEN 0
    ELSE flnSize(pageGet(t, nodeId))
             + flTotalFrom(t, flnNext(pageGet(t, nodeId)), fuel - 1)

Total(t) == IF t.free.head = 0 THEN 0 ELSE flTotalFrom(t, t.free.head, MaxPage)

FreeNode(ptrs, next) ==
    [type |-> 0, kvs |-> <<>>, total |-> 0, next |-> next, ptrs |-> ptrs]

\* fl.head = fl.new(new)
flPushHead(t1) == [t1 EXCEPT !.free.head = t1.ret]

\* flPush with no pages to reuse: every new list node is appended
RECURSIVE flPush(_, _)
flPush(t, freed) ==
    IF freed = <<>> THEN t
    ELSE flPush(flPushHead(pageAppend(t, FreeNode(SubSeq(freed, 1, Min(Len(freed), FREE_LIST_CAP)),
                                                  t.free.head))),
                SubSeq(freed, Min(Len(freed), FREE_LIST_CAP) + 1, Len(freed)))

\* flnSetTotal on the head node
flnSetTotal(t1, total) ==
    IF t1.free.head # 0
    THEN setUpdate(t1, t1.free.head, [pageGet(t1, t1.free.head) EXCEPT !.total = total])
    ELSE t1

\* FreeList.Add
Add(t, freed) ==
    IF freed = <<>> THEN t
    ELSE flnSetTotal(flPush(t, freed), Total(t) + Len(freed))

\* KVTX.pageNew, after free.Pop
pageNewAt(t1, node) ==
    IF t1.panic THEN t1
    ELSE IF t1.ret = 0 THEN pageAppend(t1, node)
    ELSE setUpdate(t1, t1.ret, node)

\* KVTX.pageNew
pageNew(t, node) == pageNewAt(Pop(t), node)

\* ---------------------------------------------------------------- B+ tree
Panic(t) == [t EXCEPT !.panic = TRUE]

RECURSIVE newKids(_, _, _)
\* the parent entry of a kid stored at t1.ret, then the other kids
newKidsNext(t1, kids, acc) ==
    newKids(t1, Tail(kids), Append(acc, KV(kids[1].kvs[1].key, 0, t1.ret)))

\* tree.new for each kid in turn; the parent entries (first key, pointer)
newKids(t, kids, acc) ==
    IF kids = <<>> THEN [t |-> t, kvs |-> acc]
    ELSE IF t.panic \/ nKeys(kids[1]) = 0 \/ ~IsTreeNode(kids[1])
    THEN [t |-> Panic(t), kvs |-> acc]
    ELSE newKidsNext(pageNew(t, kids[1]), kids, acc)

\* the new node of nodeReplaceKidN, from the entries r of the kids
nodeReplaceKids(r, old, idx) ==
    [t |-> r.t,
     node |-> TreeNode(BNODE_INODE,
                       SubSeq(old.kvs, 1, idx) \o r.kvs
                           \o SubSeq(old.kvs, idx + 2, Len(old.kvs)))]

nodeReplaceKidN(t, old, idx, kids) == nodeReplaceKids(newKids(t, kids, <<>>), old, idx)

RECURSIVE treeInsert(_, _, _, _)
\* nodeInsert after the kid was updated to r and split to sp
nodeInsertSplit(r, sp, node, idx) ==
    IF r.t.panic \/ sp.panic
    THEN [t |-> Panic(r.t), node |-> node]
    ELSE nodeReplaceKidN(r.t, node, idx, sp.nodes)

nodeInsertKid(r, node, idx) == nodeInsertSplit(r, nodeSplit3(r.node), node, idx)

nodeInsert(t, node, idx, key, val) ==
    nodeInsertKid(treeInsert(pageDel(t, node.kvs[idx + 1].ptr),
                             pageGet(t, node.kvs[idx + 1].ptr), key, val),
                  node, idx)

\* treeInsert at the index nodeLookupLE found
treeInsertAt(t, node, key, val, idx) ==
    IF node.type = BNODE_LEAF
    THEN [t |-> t,
          node |-> IF node.kvs[idx + 1].key = key
                   THEN leafUpdate(node, idx, key, val)
                   ELSE leafInsert(node, idx + 1, key, val)]
    ELSE nodeInsert(t, node, idx, key, val)

\* treeInsert: [t, node]
treeInsert(t, node, key, val) ==
    IF t.panic \/ ~IsTreeNode(node) \/ nKeys(node) = 0
    THEN [t |-> Panic(t), node |-> node]
    ELSE treeInsertAt(t, node, key, val, nodeLookupLE(node, key))

\* the error BTree.Insert returns for the sizes of its arguments
InsertError(key, val) ==
    IF KeyLen(key) = 0 \/ KeyLen(key) > BTREE_MAX_KEY_SIZE
    THEN "key size not valid"
    ELSE IF ValLen(val) > BTREE_MAX_VAL_SIZE
    THEN "val size exceeds the max size"
    ELSE ""

\* the size checks of BTree.Insert without the limit on the value
validSizes_NoValLimit(key, val) ==
    KeyLen(key) # 0 /\ KeyLen(key) <= BTREE_MAX_KEY_SIZE

validSizes(key, val) ==
    /\ KeyLen(key) # 0 /\ KeyLen(key) <= BTREE_MAX_KEY_SIZE
    /\ ValLen(val) <= BTREE_MAX_VAL_SIZE

\* tree.root = tree.new(...)
setRoot(t1) == IF t1.panic THEN t1 ELSE [t1 EXCEPT !.root = t1.ret]

\* the new root over the kids of a split root
insertKids(k) ==
    IF k.t.panic THEN Panic(k.t)
    ELSE setRoot(pageNew(k.t, TreeNode(BNODE_INODE, k.kvs)))

\* BTree.Insert after the root was updated to r and split to sp
insertSplit(r, sp) ==
    IF r.t.panic \/ sp.panic THEN Panic(r.t)
    ELSE IF Len(sp.nodes) > 1 THEN insertKids(newKids(r.t, sp.nodes, <<>>))
    ELSE setRoot(pageNew(r.t, sp.nodes[1]))

insertRoot(r) == insertSplit(r, nodeSplit3(r.node))

\* BTree.Insert on the tree of transaction t
Insert(t, key, val) ==
    IF ~validSizes(key, val) THEN t
    ELSE IF t.root = 0
    THEN setRoot(pageNew(t, TreeNode(BNODE_LEAF, <<KV(0, 0, 0), KV(key, val, 0)>>)))
    ELSE insertRoot(treeInsert(pageDel(t, t.root), pageGet(t, t.root), key, val))

\* the result of BTree.Get in a leaf
leafGet(node, key, idx) ==
    IF node.kvs[idx + 1].key = key
    THEN [found |-> TRUE, val |-> node.kvs[idx + 1].val, panic |-> FALSE]
    ELSE [found |-> FALSE, val |-> 0, panic |-> FALSE]

\* BTree.Get: [found, val, panic]
RECURSIVE treeGet(_, _, _, _)
treeGet(t, node, key, fuel) ==
    IF ~IsTreeNode(node) \/ nKeys(node) = 0 \/ fuel = 0
    THEN [found |-> FALSE, val |-> 0, panic |-> TRUE]
    ELSE IF node.type = BNODE_LEAF
    THEN leafGet(node, key, nodeLookupLE(node, key))
    ELSE treeGet(t, pageGet(t, node.kvs[nodeLookupLE(node, key) + 1].ptr), key, fuel - 1)

Get(t, key) ==
    IF t.root = 0 THEN [found |-> FALSE, val |-> 0, panic |-> FALSE]
    ELSE treeGet(t, pageGet(t, t.root), key, MaxPage)

nodeMerge(left, right) == TreeNode(left.type, left.kvs \o right.kvs)

nodeReplace2Kid(node, idx, ptr, key) ==
    TreeNode(node.type,
             SubSeq(node.kvs, 1, idx) \o <<KV(key, 0, ptr)>>
                 \o SubSeq(node.kvs, idx + 3, Len(node.kvs)))

\* a sibling can take the updated node
fits(sibling, updated) == nbytes(sibling) + nbytes(updated) - HEADER <= BTREE_PAGE_SIZE

\* [dir, sibling]
shouldMerge(t, node, idx, updated) ==
    IF nbytes(updated) > BTREE_PAGE_SIZE \div 4 THEN [dir |-> 0, sibling |-> Nil]
    ELSE IF idx > 0 /\ fits(pageGet(t, node.kvs[idx].ptr), updated)
    THEN [dir |-> -1, sibling |-> pageGet(t, node.kvs[idx].ptr)]
    ELSE IF idx + 1 < nKeys(node) /\ fits(pageGet(t, node.kvs[idx + 2].ptr), updated)
    THEN [dir |-> 1, sibling |-> pageGet(t, node.kvs[idx + 2].ptr)]
    ELSE [dir |-> 0, sibling |-> Nil]

RECURSIVE treeDelete(_, _, _)
\* nodeDelete after the merged node was stored by t2
nodeDeleteMerged(t2, node, at, merged) ==
    IF t2.panic \/ nKeys(merged) = 0
    THEN [t |-> Panic(t2), node |-> node, found |-> FALSE]
    ELSE [t |-> t2,
          node |-> nodeReplace2Kid(node, at, t2.ret, merged.kvs[1].key),
          found |-> TRUE]

nodeDeleteKept(k) == [t |-> k.t, node |-> k.node, found |-> TRUE]

\* nodeDelete on the answer m of shouldMerge
nodeDeleteMerge(t1, node, idx, updated, m) ==
    IF m.dir = 0 THEN nodeDeleteKept(nodeReplaceKidN(t1, node, idx, <<updated>>))
    ELSE IF m.dir < 0
    THEN nodeDeleteMerged(pageNew(pageDel(t1, node.kvs[idx].ptr),
                                  nodeMerge(m.sibling, updated)),
                          node, idx - 1, nodeMerge(m.sibling, updated))
    ELSE nodeDeleteMerged(pageNew(pageDel(t1, node.kvs[idx + 2].ptr),
                                  nodeMerge(m.sibling, updated)),
                          node, idx, nodeMerge(m.sibling, updated))

\* nodeDelete after the kid at kptr was updated to r
nodeDeleteKid(r, node, idx, kptr) ==
    IF r.t.panic \/ ~r.found THEN r
    ELSE nodeDeleteMerge(pageDel(r.t, kptr), node, idx, r.node,
                         shouldMerge(pageDel(r.t, kptr), node, idx, r.node))

nodeDelete(t, node, idx, key) ==
    nodeDeleteKid(treeDelete(t, pageGet(t, node.kvs[idx + 1].ptr), key),
                  node, idx, node.kvs[idx + 1].ptr)

\* treeDelete at the index nodeLookupLE found
treeDeleteAt(t, node, key, idx) ==
    IF node.type = BNODE_LEAF
    THEN IF node.kvs[idx + 1].key # key
         THEN [t |-> t, node |-> node, found |-> FALSE]
         ELSE [t |-> t, node |-> leafDelete(node, idx), found |-> TRUE]
    ELSE nodeDelete(t, node, idx, key)

\* treeDelete: [t, node, found]
treeDelete(t, node, key) ==
    IF t.panic \/ ~IsTreeNode(node) \/ nKeys(node) = 0
    THEN [t |-> Panic(t), node |-> node, found |-> FALSE]
    ELSE treeDeleteAt(t, node, key, nodeLookupLE(node, key))

\* BTree.Delete after treeDelete answered r
deleteRoot(t, r) ==
    IF r.t.panic THEN [t |-> r.t, deleted |-> FALSE]
    ELSE IF ~r.found THEN [t |-> t, deleted |-> FALSE]
    ELSE IF r.node.type = BNODE_INODE /\ nKeys(r.node) = 1
    THEN [t |-> [pageDel(r.t, t.root) EXCEPT !.root = r.node.kvs[1].ptr],
          deleted |-> TRUE]
    ELSE [t |-> setRoot(pageNew(pageDel(r.t, t.root), r.node)), deleted |-> TRUE]

\* BTree.Delete on the tree of transaction t: [t, deleted]
Delete(t, key) ==
    IF t.root = 0 THEN [t |-> t, deleted |-> FALSE]
    ELSE deleteRoot(t, treeDelete(t, pageGet(t, t.root), key))

\* --------------------------------------------------------------- iterator
CMP_GE == 3
CMP_GT == 2
CMP_LT == 0 - 2
CMP_LE == 0 - 3

\* a BIter: the nodes from the root to the leaf and the index into each.
\* An iterator that meets a page that is neither a tree node nor a zeroed
\* page reads bytes that are no keys: the call is counted as failed (panic)
BIter0 == [path |-> <<>>, pos |-> <<>>, panic |-> FALSE]

iterPush(it, node, idx) ==
    [it EXCEPT !.path = Append(@, node), !.pos = Append(@, idx)]

iterFail(it) == [it EXCEPT !.panic = TRUE]

\* a page an iterator can hold
Readable(node) == IsTreeNode(node) \/ node = ZeroPage

RECURSIVE seekFrom(_, _, _, _, _)
\* SeekLE at a node, with idx the answer of nodeLookupLE
seekNode(t, node, idx, key, it, fuel) ==
    IF node.type # BNODE_INODE THEN iterPush(it, node, idx)
    ELSE IF idx >= nKeys(node) THEN iterFail(iterPush(it, node, idx))
    ELSE seekFrom(t, node.kvs[idx + 1].ptr, key, iterPush(it, node, idx), fuel - 1)

seekAt(t, node, key, it, fuel) ==
    IF ~Readable(node) THEN iterFail(it)
    ELSE seekNode(t, node, nodeLookupLE(node, key), key, it, fuel)

seekFrom(t, ptr, key, it, fuel) ==
    IF ptr = 0 THEN it
    ELSE IF fuel = 0 THEN iterFail(it)
    ELSE seekAt(t, pageGet(t, ptr), key, it, fuel)

SeekLE(t, key) == seekFrom(t, t.root, key, BIter0, MaxPage)

lastNode(it) == it.path[Len(it.path)]

lastPos(it) == it.pos[Len(it.pos)]

\* BIter.Valid
Valid(it) ==
    /\ Len(it.path) # 0
    /\ lastNode(it) # Nil
    /\ lastPos(it) < nKeys(lastNode(it))

\* BIter.Deref of a valid iterator
DerefKey(it) == lastNode(it).kvs[lastPos(it) + 1].key

DerefVal(it) == lastNode(it).kvs[lastPos(it) + 1].val

\* uint16 subtraction
Sub16(a, b) == (a - b) % 65536

\* path[level+1], pos[level+1] = kid, pos (levels count from 0)
setKid(it, level, kid, pos) ==
    IF ~Readable(kid) /\ kid # Nil THEN iterFail(it)
    ELSE [it EXCEPT !.path[level + 2] = kid, !.pos[level + 2] = pos]

\* the tail of iterNext: the kid below the level is loaded again and
\* entered at its first key
iterNextKid(t, it, level) ==
    IF it.panic \/ level + 1 >= Len(it.pos) THEN it
    ELSE IF it.pos[level + 1] >= nKeys(it.path[level + 1]) THEN iterFail(it)
    ELSE setKid(it, level,
                pageGet(t, it.path[level + 1].kvs[it.pos[level + 1] + 1].ptr), 0)

RECURSIVE iterNext(_, _, _)
iterNext(t, it, level) ==
    IF it.panic \/ it.path[level + 1] = Nil THEN iterFail(it)
    ELSE IF it.pos[level + 1] < Sub16(nKeys(it.path[level + 1]), 1)
    THEN iterNextKid(t, [it EXCEPT !.pos[level + 1] = @ + 1], level)
    ELSE IF level < Len(it.path) - 1
    THEN iterNextKid(t, iterNext(t, it, level + 1), level)
    ELSE it

\* the kid that iterPrev enters at its last key
prevKid(it, level, kid) ==
    IF kid = Nil THEN iterFail(it)
    ELSE setKid(it, level, kid, Sub16(nKeys(kid), 1))

iterPrevKid(t, it, level) ==
    IF it.panic \/ level + 1 >= Len(it.pos) THEN it
    ELSE IF it.pos[level + 1] >= nKeys(it.path[level + 1]) THEN iterFail(it)
    ELSE prevKid(it, level,
                 pageGet(t, it.path[level + 1].kvs[it.pos[level + 1] + 1].ptr))

RECURSIVE iterPrev(_, _, _)
iterPrev(t, it, level) ==
    IF it.panic THEN it
    ELSE IF it.pos[level + 1] > 0
    THEN iterPrevKid(t, [it EXCEPT !.pos[level + 1] = @ - 1], level)
    ELSE IF level > 0
    THEN iterPrevKid(t, iterPrev(t, it, level - 1), level)
    ELSE it

\* BIter.Next and BIter.Prev
IterNext(t, it) == iterNext(t, it, 0)

IterPrev(t, it) == iterPrev(t, it, Len(it.path) - 1)

\* keys are compared as byte strings: by rank
cmpOK(key, cmp, ref) ==
    CASE cmp = CMP_GE -> key >= ref
      [] cmp = CMP_GT -> key > ref
      [] cmp = CMP_LT -> key < ref
      [] cmp = CMP_LE -> key <= ref

\* BTree.Seek after SeekLE answered it
seekFix(t, it, key, cmp) ==
    IF it.panic \/ cmp = CMP_LE \/ ~Valid(it) THEN it
    ELSE IF cmpOK(DerefKey(it), cmp, key) THEN it
    ELSE IF cmp > 0 THEN IterNext(t, it)
    ELSE IterPrev(t, it)

Seek(t, key, cmp) == seekFix(t, SeekLE(t, key), key, cmp)

\* the loop `for iter.Valid() { Deref; iter.Next() }`, observed for at most
\* fuel visits: the keys visited, and whether the iterator is still valid
RECURSIVE visit(_, _, _, _)
visit(t, it, seen, fuel) ==
    IF it.panic THEN [keys |-> seen, more |-> FALSE, panic |-> TRUE]
    ELSE IF ~Valid(it) THEN [keys |-> seen, more |-> FALSE, panic |-> FALSE]
    ELSE IF fuel = 0 THEN [keys |-> seen, more |-> TRUE, panic |-> FALSE]
    ELSE visit(t, IterNext(t, it), Append(seen, DerefKey(it)), fuel - 1)

\* ------------------------------------------------------------ master page
\* mmapInit: the file size must be a multiple of the page size
mmapInit(f) == IF f.rem # 0 THEN "file size is not a multiple of page size" ELSE ""

\* masterLoad that lets a root equal to the page count through
masterLoad_RootAtCount(f) ==
    IF f.npages = 0
    THEN [err |-> "", root |-> 0, flushed |-> 1, head |-> 0]
    ELSE IF f.master.sig # "FiloDB"
    THEN [err |-> "bad signature", root |-> 0, flushed |-> 0, head |-> 0]
    ELSE IF 1 > f.master.used \/ f.master.used > f.npages
            \/ f.master.root > f.master.used
    THEN [err |-> "bad master page", root |-> 0, flushed |-> 0, head |-> 0]
    ELSE [err |-> "", root |-> f.master.root, flushed |-> f.master.used,
          head |-> f.master.head]

\* masterLoad: [err, root, flushed, head]
masterLoad(f) ==
    IF f.npages = 0
    THEN [err |-> "", root |-> 0, flushed |-> 1, head |-> 0]
    ELSE IF f.master.sig # "FiloDB"
    THEN [err |-> "bad signature", root |-> 0, flushed |-> 0, head |-> 0]
    ELSE IF 1 > f.master.used \/ f.master.used > f.npages
            \/ f.master.root >= f.master.used
    THEN [err |-> "bad master page", root |-> 0, flushed |-> 0, head |-> 0]
    ELSE [err |-> "", root |-> f.master.root, flushed |-> f.master.used,
          head |-> f.master.head]

\* masterStore writes 32 bytes: the version word of the page is not written
masterStore(k, old) ==
    [sig |-> "FiloDB", root |-> k.root, used |-> k.flushed,
     head |-> k.free.head, version |-> old.version]

RECURSIVE growTo(_, _)
growTo(filePages, npages) ==
    IF filePages < npages
    THEN growTo(filePages + Max(filePages \div 8, 1), npages)
    ELSE filePages

extendFile(filePages, npages) ==
    IF filePages > npages THEN filePages ELSE growTo(filePages, npages)

\* ------------------------------------------------------------ structures
FreeListData0 == [head |-> 0, nodes |-> <<>>, total |-> 0, offset |-> 0]

\* a zero KV
KV0 == [root |-> 0, free |-> FreeListData0, flushed |-> 0, version |-> 0,
        readers |-> <<>>]

\* a zero KVTX
KVTX0 == [root |-> 0, version |-> 0,
          free |-> [head |-> 0, nodes |-> <<>>, total |-> 0, offset |-> 0,
                    version |-> 0, minReader |-> 0],
          nappend |-> 0, updates |-> <<>>, ret |-> 0, pops |-> <<>>,
          apps |-> <<>>, panic |-> FALSE]

\* the catalog tables that initializeInternalTables creates, one write
\* transaction each
BootNames == <<"@meta", "@table">>

\* the tasks given to Submit, and the goroutines that can run worker()
Tasks == 1..MaxTasks

Slots == 1..(MaxWorkers + 1)

\* NewPool: the WorkerPool and the locals of its dispatch goroutine.  A task
\* is "new", "sending" (Submit waits on taskQueue), "held" (dispatch has
\* received it) or "done" (its body has returned); a goroutine of worker() is
\* "none" (not there), "taken" (it has a task and has not called it yet),
\* "running" (inside the task), "free" (the task has returned) or "ready" (it
\* waits on workerQueue).  History: the order in which dispatch received the
\* tasks, the tasks pushed on the waiting queue, the order in which tasks
\* left the waiting queue for a worker, the order in which the bodies began,
\* and the number of times each body began.
Pool0 ==
    [task |-> [t \in Tasks |-> "new"],
     waitingQueue |-> <<>>,
     workers |-> [g \in Slots |-> [pc |-> "none", task |-> 0]],
     workerCount |-> 0,
     idle |-> FALSE,
     submitted |-> <<>>, waited |-> {}, handed |-> <<>>, started |-> <<>>,
     runs |-> [t \in Tasks |-> 0]]

\* a DB without cached table definitions, outside every call; boot is the
\* number of catalog tables initializeInternalTables is done with, spent the
\* transactions and writes it took
DB0 == [tables |-> {}, pc |-> "idle", arg |-> <<>>, boot |-> 0,
        spent |-> [tx |-> 0, ops |-> 0], pool |-> Pool0]

\* a KV that is used without a DB on top
NoDB == [DB0 EXCEPT !.boot = Len(BootNames)]

\* initializeInternalTables is at work
Booting == db.boot < Len(BootNames)

\* the transactions and the writes that a behaviour may take
TxBudget == MaxTx + db.spent.tx + (IF Booting THEN 1 ELSE 0)

OpsBudget == MaxOps + db.spent.ops + (IF Booting THEN 2 ELSE 0)

\* no row in any table
Rows0 == [tx |-> {}, committed |-> {}, snap |-> [r \in Readers |-> {}]]

\* no call yet
NoRes == [op |-> "none"]

\* a zero KVReader
KVReader0 == [active |-> FALSE, version |-> 0, root |-> 0, index |-> 0]

\* the KVReader a registry entry points to
Entry(r, rd) == [id |-> r, version |-> rd.version, index |-> rd.index]

ZeroMaster == [sig |-> "zero", root |-> 0, used |-> 0, head |-> 0, version |-> 0]

FreeListDataOf(fl) ==
    [head |-> fl.head, nodes |-> fl.nodes, total |-> fl.total, offset |-> fl.offset]

\* the key/value state a lookup through the mapping sees from a root:
\* the value of each key, -1 for not found, -2 for a lookup that panics
Code(r) == IF r.panic THEN -2 ELSE IF r.found THEN r.val ELSE -1

View(root) == [k \in Keys |-> Code(Get([KVTX0 EXCEPT !.root = root], k))]

\* the same through the dirty map of a transaction
TxView(t) == [k \in Keys |-> Code(Get(t, k))]

NoMeta == [root |-> 0, used |-> 0, head |-> 0, version |-> -1]

MetaOf(k) == [root |-> k.root, used |-> k.flushed, head |-> k.free.head,
              version |-> k.version]

\* the pages of the file that are in use when a transaction begins: the
\* pages of the published tree and the nodes of the published free list
OldPages ==
    treePages(kv.root, MaxPage)
        \cup {flChain(KVTX0, kv.free.head, MaxPage)[i] :
                  i \in 1..Len(flChain(KVTX0, kv.free.head, MaxPage))}

NoBegin == [root |-> 0, version |-> 0, free |-> FreeListData0, view |-> View(0),
            flushed |-> 0, old |-> {}]

NoPop == [ptrs |-> <<>>, at |-> <<>>, readers |-> {}, apps |-> <<>>, appended |-> {}]

\* ------------------------------------------------------------ reader heap
\* ReaderList.Less compares the index fields (positions are 0-based)
Less(rl, i, j) == rl[i + 1].index < rl[j + 1].index

Swap(rl, i, j) ==
    [rl EXCEPT ![i + 1] = rl[j + 1], ![j + 1] = rl[i + 1]]

RECURSIVE heapUp(_, _)
heapUp(rl, j) ==
    LET i == IF j = 0 THEN 0 ELSE (j - 1) \div 2
    IN  IF i = j \/ ~Less(rl, j, i) THEN rl
        ELSE heapUp(Swap(rl, i, j), i)

\* [rl, i]: the list and the final position of the element that sank
RECURSIVE heapDown(_, _, _)
heapDown(rl, i, n) ==
    LET j1 == 2 * i + 1
        j2 == j1 + 1
        j == IF j2 < n /\ Less(rl, j2, j1) THEN j2 ELSE j1
    IN  IF j1 >= n THEN [rl |-> rl, i |-> i]
        ELSE IF ~Less(rl, j, i) THEN [rl |-> rl, i |-> i]
        ELSE heapDown(Swap(rl, i, j), j, n)

heapPush(rl, x) == heapUp(Append(rl, x), Len(rl))

\* heap.Fix after the removed element went to the end: down, or else up
heapFix(d, i) == IF d.i > i THEN d.rl ELSE heapUp(d.rl, i)

heapRemove(rl, i) ==
    IF Len(rl) - 1 = i THEN SubSeq(rl, 1, Len(rl) - 1)
    ELSE SubSeq(heapFix(heapDown(Swap(rl, i, Len(rl) - 1), i, Len(rl) - 1), i),
                1, Len(rl) - 1)

\* ----------------------------------------------------------------- flush
Perms(S) ==
    {q \in [1..Cardinality(S) -> S] : \A i, j \in 1..Cardinality(S) : i # j => q[i] # q[j]}

\* the deallocated pages of the dirty map
freedSet(t) == {p \in DOMAIN t.updates : t.updates[p] = Nil}

\* writePages after free.Add: the page count to extend to, and the copy of
\* the dirty pages into the mapping
writePagesOf(t1) ==
    [t |-> t1,
     npages |-> t1.nappend + kv.flushed,
     pages |-> [p \in PageNos |->
                   IF p \in DOMAIN t1.updates /\ t1.updates[p] # Nil
                   THEN t1.updates[p] ELSE pages[p]]]

writePages(t, freed) == writePagesOf(Add(t, freed))

InBounds(t) == \A p \in DOMAIN t.updates : p \in PageNos

MarkFreed(freed, version) ==
    [p \in PageNos |-> IF \E i \in 1..Len(freed) : freed[i] = p
                       THEN version ELSE freedAt[p]]

PopRecord(t) ==
    [ptrs |-> t.pops,
     at |-> [i \in 1..Len(t.pops) |->
                IF t.pops[i] \in PageNos THEN freedAt[t.pops[i]] ELSE -1],
     readers |-> {kv.readers[i].version : i \in 1..Len(kv.readers)},
     apps |-> t.apps,
     appended |-> lastPop.appended \cup {t.apps[i] : i \in 1..Len(t.apps)}]

\* what a call leaves of the KVTX: the return slot, the pop record and the
\* record of the appended pages are per call
Settle(t) == [t EXCEPT !.ret = 0, !.pops = <<>>, !.apps = <<>>]

\* syncPages that leaves the page count of the KV as it was
syncPages_NoAdvance(w, freed, wp) ==
    /\ InBounds(wp.t)
    /\ pages' = wp.pages
    /\ kv' = kv
    /\ file' = [file EXCEPT !.npages = extendFile(@, wp.npages),
                            !.master = masterStore(kv', @)]
    /\ tx' = [tx EXCEPT ![w] = Settle([wp.t EXCEPT !.updates = <<>>])]
    /\ freedAt' = MarkFreed(freed, wp.t.free.version)
    /\ lastPop' = PopRecord(wp.t)

\* syncPages after writePages answered wp
syncPages(w, freed, wp) ==
    /\ InBounds(wp.t)
    /\ pages' = wp.pages
    /\ kv' = [kv EXCEPT !.flushed = @ + wp.t.nappend]
    /\ file' = [file EXCEPT !.npages = extendFile(@, wp.npages),
                            !.master = masterStore(kv', @)]
    /\ tx' = [tx EXCEPT ![w] = Settle([wp.t EXCEPT !.updates = <<>>])]
    /\ freedAt' = MarkFreed(freed, wp.t.free.version)
    /\ lastPop' = PopRecord(wp.t)

\* flushPages = writePages then syncPages, with I/O that succeeds
FlushPages(w, t) ==
    \E freed \in Perms(freedSet(t)) : syncPages(w, freed, writePages(t, freed))

\* ------------------------------------------------------------------ tables
TYPE_INT64 == 1
TYPE_BYTES == 2
MODE_UPSERT == 0
MODE_UPDATE_ONLY == 1
MODE_INSERT_ONLY == 2
TABLE_PREFIX_MIN == 1
\* the result cap of DB.GetRange
maxResults == 500

\* A table cell (Value).  An INT64 cell holds its number.  A BYTES cell
\* holds a number that stands for its string: in a key column the rank of
\* the string in byte order (1 "@meta", 2 "@table", 3 "a", 4 "b", 5 "items",
\* 6 "next_prefix", 7 "users"), in another column any number.  The strings
\* of the keys have no byte 0x00, 0x01, 0xfe or 0xff, so that escapeString
\* leaves them as they are.
Value0 == [Type |-> 0, v |-> 0]

I64(i) == [Type |-> TYPE_INT64, v |-> i]

Str(s) == [Type |-> TYPE_BYTES, v |-> s]

StrRank(name) ==
    CASE name = "@meta" -> 1 [] name = "@table" -> 2 [] name = "a" -> 3
      [] name = "b" -> 4 [] name = "items" -> 5 [] name = "next_prefix" -> 6
      [] name = "users" -> 7

\* An encoded key is its rank in byte order: the prefix, then one
\* hexadecimal digit per key column.  Digit 0 is a column that is not there,
\* a string has the digit of its rank, a number i >= 0 the digit 8 + i
\* (its first byte is 0x80 or more), 15 is the padding with 0xff.
Digit(v) == IF v.Type = TYPE_INT64 THEN 8 + v.v ELSE v.v

DigitAt(vals, i) == IF i <= Len(vals) THEN Digit(vals[i]) ELSE 0

encodeKey(prefix, vals) == prefix * 256 + DigitAt(vals, 1) * 16 + DigitAt(vals, 2)

\* bytes.HasPrefix(key, the four bytes of the prefix)
HasPrefix(key, prefix) == key \div 256 = prefix

\* the cell of a type that decodeValues reads from a digit of a key; a
\* column that is not there leaves the zero of the type, and so does a
\* number read from a string of fewer than 8 bytes (all but "next_prefix")
CellOf(type, d) ==
    IF d = 0 THEN [Type |-> type, v |-> 0]
    ELSE IF type = TYPE_BYTES THEN Str(d)
    ELSE IF d < 8 /\ d # StrRank("next_prefix") THEN I64(0)
    ELSE I64(d - 8)

\* decodeValues(key[4:], values) for the key columns of the types
decodeKey(key, types) ==
    [i \in 1..Len(types) |->
        CellOf(types[i], IF i = 1 THEN (key \div 16) % 16 ELSE key % 16)]

\* encodeValues of the cells that are not in the key: an identifier of the
\* bytes (odd: a short value); no cells, no bytes
RECURSIVE valSum(_)
valSum(vals) == IF vals = <<>> THEN 0 ELSE vals[1].v + 64 * valSum(Tail(vals))

encodeValues(vals) == IF vals = <<>> THEN 0 ELSE 2 * valSum(vals) + 1

RECURSIVE cellsOf(_, _)
cellsOf(sum, types) ==
    IF types = <<>> THEN <<>>
    ELSE IF Len(types) = 1 THEN <<[Type |-> types[1], v |-> sum]>>
    ELSE <<[Type |-> types[1], v |-> sum % 64]>> \o cellsOf(sum \div 64, Tail(types))

\* decodeValues of a stored value; of no bytes it leaves the zero cells
decodeValues(val, types) == cellsOf(IF val = 0 THEN 0 ELSE (val - 1) \div 2, types)

\* struct TableDef
TableDef(name, cols, types, pkeys, indexes, prefix) ==
    [Name |-> name, Cols |-> cols, Types |-> types, PKeys |-> pkeys,
     Indexes |-> indexes, Prefix |-> prefix,
     IndexPrefix |-> [i \in 1..Len(indexes) |-> prefix + i]]

TDEF_META ==
    TableDef("@meta", <<"key", "val">>, <<TYPE_BYTES, TYPE_BYTES>>, 1, <<>>, 1)

TDEF_TABLE ==
    TableDef("@table", <<"name", "def">>, <<TYPE_BYTES, TYPE_BYTES>>, 1, <<>>, 2)

\* position of a column in a list of columns, counted from 1; 0: not there
RECURSIVE indexOf(_, _)
indexOf(cols, col) ==
    IF cols = <<>> THEN 0
    ELSE IF cols[1] = col THEN 1
    ELSE IF indexOf(Tail(cols), col) = 0 THEN 0
    ELSE 1 + indexOf(Tail(cols), col)

ColIndex(tdef, col) == indexOf(tdef.Cols, col)

\* Record.Get: the cell of a column of the record
RecGet(rec, col) == rec.Vals[indexOf(rec.Cols, col)]

\* checkRecord: [err, vals], the cells in the order of the schema
checkRecord(tdef, rec, n) ==
    IF \E i \in 1..n : indexOf(rec.Cols, tdef.Cols[i]) = 0
    THEN [err |-> IF n = tdef.PKeys THEN "missing primary key column"
                  ELSE "missing column",
          vals |-> <<>>]
    ELSE [err |-> "",
          vals |-> [i \in 1..Len(tdef.Cols) |->
                       IF i <= n THEN RecGet(rec, tdef.Cols[i]) ELSE Value0]]

\* validateTableTypes: the i-th cell of the record against the i-th type
\* of the schema
validateTableTypes(tdef, rec) ==
    \A i \in 1..Len(rec.Cols) : rec.Vals[i].Type = tdef.Types[i]

isPrefix(long, short) ==
    /\ Len(long) >= Len(short)
    /\ \A i \in 1..Len(short) : long[i] = short[i]

\* the loop of findIndex over the indexes from i on (counted from 0)
RECURSIVE findWinner(_, _, _, _)
findWinner(tdef, keys, i, winner) ==
    IF i >= Len(tdef.Indexes) THEN winner
    ELSE IF ~isPrefix(tdef.Indexes[i + 1], keys)
    THEN findWinner(tdef, keys, i + 1, winner)
    ELSE IF winner = -2 \/ Len(tdef.Indexes[i + 1]) < Len(tdef.Indexes[winner + 1])
    THEN findWinner(tdef, keys, i + 1, i)
    ELSE findWinner(tdef, keys, i + 1, winner)

\* findIndex that takes the first index that begins with the columns
findIndex_First(tdef, keys) ==
    IF isPrefix(SubSeq(tdef.Cols, 1, tdef.PKeys), keys)
    THEN [idx |-> -1, err |-> ""]
    ELSE IF \A i \in 1..Len(tdef.Indexes) : ~isPrefix(tdef.Indexes[i], keys)
    THEN [idx |-> -2, err |-> "no index found"]
    ELSE [idx |-> (CHOOSE i \in 1..Len(tdef.Indexes) :
                      /\ isPrefix(tdef.Indexes[i], keys)
                      /\ \A j \in 1..(i - 1) : ~isPrefix(tdef.Indexes[j], keys)) - 1,
          err |-> ""]

\* findIndex: [idx, err]; -1 is the primary key
findIndex(tdef, keys) ==
    IF isPrefix(SubSeq(tdef.Cols, 1, tdef.PKeys), keys)
    THEN [idx |-> -1, err |-> ""]
    ELSE IF findWinner(tdef, keys, 0, -2) = -2
    THEN [idx |-> -2, err |-> "no index found"]
    ELSE [idx |-> findWinner(tdef, keys, 0, -2), err |-> ""]

\* a Record: the columns named and their cells
Rec(cols, vals) == [Cols |-> cols, Vals |-> vals]

\* the type of a column of the table
TypeOf(tdef, col) == tdef.Types[ColIndex(tdef, col)]

\* encodeKeyPartial: the digit that pads the i-th key column; the padding
\* stops after a BYTES column
padDigit(nvals, tdef, keys, cmp, i) ==
    IF /\ cmp \in {CMP_GT, CMP_LE}
       /\ i > nvals /\ i <= Len(keys)
       /\ \A j \in (nvals + 1)..(i - 1) : TypeOf(tdef, keys[j]) = TYPE_INT64
    THEN 15 ELSE 0

encodeKeyPartial(prefix, values, tdef, keys, cmp) ==
    encodeKey(prefix, values)
        + padDigit(Len(values), tdef, keys, cmp, 1) * 16
        + padDigit(Len(values), tdef, keys, cmp, 2)

\* a Scanner that dbScan refused
NoScanner == [err |-> "", indexNo |-> -2, tdef |-> TDEF_META, keyStart |-> 0,
              keyEnd |-> 0, iter |-> BIter0]

\* the columns and the prefix of the key space of an index; -1: the
\* primary key
indexCols(tdef, indexNo) ==
    IF indexNo >= 0 THEN tdef.Indexes[indexNo + 1] ELSE SubSeq(tdef.Cols, 1, tdef.PKeys)

indexPrefix(tdef, indexNo) ==
    IF indexNo >= 0 THEN tdef.IndexPrefix[indexNo + 1] ELSE tdef.Prefix

\* dbScan once findIndex chose the index
scanOf(tdef, req, t, indexNo, keyStart) ==
    [err |-> "", indexNo |-> indexNo, tdef |-> tdef, keyStart |-> keyStart,
     keyEnd |-> encodeKeyPartial(indexPrefix(tdef, indexNo), req.Key2.Vals, tdef,
                                 indexCols(tdef, indexNo), req.Cmp2),
     iter |-> Seek(t, keyStart, req.Cmp1)]

scanAt(tdef, req, t, indexNo) ==
    scanOf(tdef, req, t, indexNo,
           encodeKeyPartial(indexPrefix(tdef, indexNo), req.Key1.Vals, tdef,
                            indexCols(tdef, indexNo), req.Cmp1))

\* dbScan: the Scanner it fills in, or the error
dbScan(tdef, req, t) ==
    IF ~((req.Cmp1 > 0 /\ req.Cmp2 < 0) \/ (req.Cmp2 > 0 /\ req.Cmp1 < 0))
    THEN [NoScanner EXCEPT !.err = "bad range"]
    ELSE IF findIndex(tdef, req.Key1.Cols).err # ""
    THEN [NoScanner EXCEPT !.err = findIndex(tdef, req.Key1.Cols).err]
    ELSE scanAt(tdef, req, t, findIndex(tdef, req.Key1.Cols).idx)

\* Scanner.Valid
ScValid(sc) ==
    /\ ~sc.iter.panic
    /\ Valid(sc.iter)
    /\ DerefKey(sc.iter) <= sc.keyEnd
    /\ DerefKey(sc.iter) >= sc.keyStart

\* Scanner.Next after iter.Next answered n
scNextTo(sc, n) ==
    IF n.panic \/ ~Valid(n) THEN [sc EXCEPT !.iter = n]
    ELSE IF DerefKey(n) = DerefKey(sc.iter) THEN [sc EXCEPT !.iter = BIter0]
    ELSE [sc EXCEPT !.iter = n]

\* Scanner.Next
ScNext(t, sc) ==
    IF sc.iter.panic \/ ~Valid(sc.iter) THEN sc
    ELSE scNextTo(sc, IterNext(t, sc.iter))

\* the row decoded from a pair of the primary key space
rowOf(tdef, key, val) ==
    Rec(tdef.Cols,
        decodeKey(key, SubSeq(tdef.Types, 1, tdef.PKeys))
            \o decodeValues(val, SubSeq(tdef.Types, tdef.PKeys + 1, Len(tdef.Types))))

\* the range of dbGet: from the record to the record
getReq(rec) == [Cmp1 |-> CMP_GE, Cmp2 |-> CMP_LE, Key1 |-> rec, Key2 |-> rec]

\* dbGet by the primary key after dbScan answered sc
pkGot(sc, rec) ==
    IF sc.err = "" /\ ScValid(sc)
    THEN [ok |-> TRUE, err |-> "", panic |-> FALSE,
          rec |-> rowOf(sc.tdef, DerefKey(sc.iter), DerefVal(sc.iter))]
    ELSE [ok |-> FALSE, err |-> sc.err, panic |-> sc.iter.panic, rec |-> rec]

\* the primary key that an entry of an index names
pkOfEntry(sc) ==
    Rec(SubSeq(sc.tdef.Cols, 1, sc.tdef.PKeys),
        [i \in 1..sc.tdef.PKeys |->
            RecGet(Rec(indexCols(sc.tdef, sc.indexNo),
                       decodeKey(DerefKey(sc.iter),
                                 [j \in 1..Len(indexCols(sc.tdef, sc.indexNo)) |->
                                     TypeOf(sc.tdef, indexCols(sc.tdef, sc.indexNo)[j])])),
                   sc.tdef.Cols[i])])

\* Scanner.Deref of a valid Scanner: the row itself, or the row that dbGet
\* finds for the primary key of the entry of the index
ScDeref(t, sc) ==
    IF sc.indexNo < 0
    THEN rowOf(sc.tdef, DerefKey(sc.iter), DerefVal(sc.iter))
    ELSE pkGot(dbScan(sc.tdef, getReq(pkOfEntry(sc)), t), pkOfEntry(sc)).rec

\* dbGet after dbScan answered sc
dbGot(t, sc, rec) ==
    IF sc.err = "" /\ ScValid(sc)
    THEN [ok |-> TRUE, err |-> "", panic |-> FALSE, rec |-> ScDeref(t, sc)]
    ELSE [ok |-> FALSE, err |-> sc.err, panic |-> sc.iter.panic, rec |-> rec]

\* dbGet: [ok, err, rec]
dbGet(tdef, rec, t) == dbGot(t, dbScan(tdef, getReq(rec), t), rec)

\* json.Marshal of a table definition, as the number of the string, and
\* json.Unmarshal
UsersCols == <<"id", "name">>
ItemsCols == <<"id", "cat", "price">>

\* the table definitions that are stored, without their prefixes
StoredDefs ==
    << TableDef("@meta", <<"key", "val">>, <<TYPE_BYTES, TYPE_BYTES>>, 1, <<>>, 0),
       TableDef("@table", <<"name", "def">>, <<TYPE_BYTES, TYPE_BYTES>>, 1, <<>>, 0),
       TableDef("users", UsersCols, <<TYPE_INT64, TYPE_BYTES>>, 1, <<>>, 0),
       TableDef("items", ItemsCols, <<TYPE_INT64, TYPE_BYTES, TYPE_INT64>>, 1,
                <<(<<"cat", "id">>)>>, 0),
       TableDef("users", UsersCols, <<TYPE_INT64, TYPE_BYTES>>, 0, <<>>, 0),
       TableDef("items", ItemsCols, <<TYPE_INT64, TYPE_BYTES, TYPE_INT64>>, 0,
                <<(<<"cat">>)>>, 0),
       TableDef("users", UsersCols, <<TYPE_INT64, TYPE_INT64>>, 1, <<>>, 0),
       TableDef("items", ItemsCols, <<TYPE_INT64, TYPE_INT64, TYPE_INT64>>, 1,
                <<(<<"cat", "id">>)>>, 0),
       TableDef("items", ItemsCols, <<TYPE_INT64, TYPE_BYTES, TYPE_INT64>>, 1,
                <<(<<"id">>)>>, 0),
       TableDef("users", UsersCols, <<TYPE_INT64, TYPE_BYTES>>, 1,
                <<(<<"id">>)>>, 0) >>

\* a definition with another prefix
WithPrefix(tdef, prefix) ==
    TableDef(tdef.Name, tdef.Cols, tdef.Types, tdef.PKeys, tdef.Indexes, prefix)

TdefCode(tdef) ==
    16 * (CHOOSE i \in 1..Len(StoredDefs) : StoredDefs[i] = WithPrefix(tdef, 0))
        + tdef.Prefix

TdefOf(code) == WithPrefix(StoredDefs[code \div 16], code % 16)

\* getTableDefDB after dbGet answered g
tdefGot(g) ==
    IF g.ok THEN {TdefOf(RecGet(g.rec, "def").v)} ELSE {}

getTableDefDB(name, t) ==
    tdefGot(dbGet(TDEF_TABLE, Rec(<<"name">>, <<Str(StrRank(name))>>), t))

\* GetTableDef: the definitions found (one or none), from the cache first
GetTableDef(tables, name, t) ==
    IF \E d \in tables : d.Name = name
    THEN {d \in tables : d.Name = name}
    ELSE getTableDefDB(name, t)

\* the loop of DB.GetRange
RECURSIVE rangeLoop(_, _, _, _)
rangeLoop(t, sc, results, count) ==
    IF sc.iter.panic
    THEN [rows |-> results, err |-> "", panic |-> TRUE]
    ELSE IF ScValid(sc) /\ count < maxResults
    THEN rangeLoop(t, ScNext(t, sc), Append(results, ScDeref(t, sc).Vals), count + 1)
    ELSE [rows |-> results, panic |-> FALSE,
          err |-> IF count >= maxResults THEN "reached maximum result limit" ELSE ""]

\* DB.GetRange once the table is found, after dbScan answered sc
rangeOf(t, sc) ==
    IF sc.err # "" THEN [rows |-> <<>>, err |-> sc.err, panic |-> FALSE]
    ELSE rangeLoop(t, sc, <<>>, 0)

\* GetRange whose scan leaves out the row at the start of the range
rangeReq_AfterStart(start, end) ==
    [Cmp1 |-> CMP_GT, Cmp2 |-> CMP_LE, Key1 |-> start, Key2 |-> end]

rangeReq(start, end) == [Cmp1 |-> CMP_GE, Cmp2 |-> CMP_LE, Key1 |-> start, Key2 |-> end]

\* TableScanner.Next after iter.Next answered n: the iterator it keeps
tsNextTo(it, n) ==
    IF n.panic \/ ~Valid(n) THEN iterFail(n)
    ELSE IF DerefKey(n) = DerefKey(it) THEN BIter0
    ELSE n

\* the loop of fullTableScan over TableScanner.Next
RECURSIVE tableLoop(_, _, _, _)
tableLoop(t, tdef, it, results) ==
    IF it.panic THEN [rows |-> results, err |-> "", panic |-> TRUE]
    ELSE IF ~Valid(it) \/ ~HasPrefix(DerefKey(it), tdef.Prefix)
    THEN [rows |-> results, err |-> "", panic |-> FALSE]
    ELSE tableLoop(t, tdef, tsNextTo(it, IterNext(t, it)),
                   Append(results, rowOf(tdef, DerefKey(it), DerefVal(it)).Vals))

\* fullTableScan that seeks to the first prefix, not to the prefix of the table
fullTableScan_FirstPrefix(t, tdef) ==
    tableLoop(t, tdef, Seek(t, encodeKey(TABLE_PREFIX_MIN, <<>>), CMP_GE), <<>>)

\* fullTableScan through the tree of its KVReader
fullTableScan(t, tdef) ==
    tableLoop(t, tdef, Seek(t, encodeKey(tdef.Prefix, <<>>), CMP_GE), <<>>)

\* ------------------------------------------------------------ value codec
\* encodeValues and decodeValues at the level of the bytes.  A cell is
\* [Type, I64, Str]: I64 the 8 bytes of the number in two's complement, most
\* significant first, Str the bytes of the string
RECURSIVE countOf(_, _)
countOf(in, b) ==
    IF in = <<>> THEN 0
    ELSE (IF in[1] = b THEN 1 ELSE 0) + countOf(Tail(in), b)

\* the loop of escapeString: 0x00 becomes 0x01 0x01, 0x01 becomes 0x01 0x02
RECURSIVE escapeLoop(_)
escapeLoop(in) ==
    IF in = <<>> THEN <<>>
    ELSE (IF in[1] <= 1 THEN <<1, in[1] + 1>> ELSE <<in[1]>>) \o escapeLoop(Tail(in))

\* the bytes written into a slice of n bytes: a write past its end panics
\* (index out of range), the bytes not written stay zero
written(bytes, n) ==
    IF Len(bytes) > n THEN [panic |-> TRUE, out |-> <<>>]
    ELSE [panic |-> FALSE,
          out |-> bytes \o [i \in 1..(n - Len(bytes)) |-> 0]]

\* escapeString: [panic, out]
escapeString(in) ==
    IF countOf(in, 0) + countOf(in, 1) = 0 THEN [panic |-> FALSE, out |-> in]
    ELSE IF Len(in) > 0 /\ in[1] >= 254
    THEN written(<<254, in[1]>> \o escapeLoop(Tail(in)),
                 Len(in) + countOf(in, 0) + countOf(in, 1))
    ELSE written(escapeLoop(in), Len(in) + countOf(in, 0) + countOf(in, 1))

\* the first loop of unEscapeString, from position i (counted from 1)
RECURSIVE escapeCount(_, _)
escapeCount(in, i) ==
    IF i > Len(in) THEN 0
    ELSE IF in[i] = 1 /\ i + 1 <= Len(in) THEN 1 + escapeCount(in, i + 2)
    ELSE escapeCount(in, i + 1)

\* the second loop of unEscapeString, from position i
RECURSIVE unEscapeLoop(_, _)
unEscapeLoop(in, i) ==
    IF i > Len(in) THEN <<>>
    ELSE IF in[i] = 1 /\ i + 1 <= Len(in)
    THEN <<(in[i + 1] - 1) % 256>> \o unEscapeLoop(in, i + 2)
    ELSE <<in[i]>> \o unEscapeLoop(in, i + 1)

\* unEscapeString: [panic, out]
unEscapeString(in) ==
    IF Len(in) = 0 THEN [panic |-> FALSE, out |-> in]
    ELSE IF escapeCount(in, 1) = 0 /\ in[1] # 254 THEN [panic |-> FALSE, out |-> in]
    ELSE IF in[1] # 254 THEN written(unEscapeLoop(in, 1), Len(in) - escapeCount(in, 1))
    ELSE IF Len(in) < 2 THEN [panic |-> FALSE, out |-> in]
    ELSE written(<<in[2]>> \o unEscapeLoop(in, 3), Len(in) - escapeCount(in, 1) - 1)

\* uint64(v) + (1 << 63) and u - (1 << 63): the top bit changes
flipTop(bytes) == [bytes EXCEPT ![1] = (@ + 128) % 256]

\* encodeValues of one cell: [panic, out]
encodeValue(v) ==
    IF v.Type = TYPE_INT64 THEN [panic |-> FALSE, out |-> flipTop(v.I64)]
    ELSE IF escapeString(v.Str).panic THEN [panic |-> TRUE, out |-> <<>>]
    ELSE [panic |-> FALSE, out |-> escapeString(v.Str).out \o <<0>>]

\* the position of the first 0x00 from position i on; past the end: none
RECURSIVE firstZero(_, _)
firstZero(in, i) ==
    IF i > Len(in) \/ in[i] = 0 THEN i ELSE firstZero(in, i + 1)

\* a cell as decodeValues is given it: the type, and nothing else
Cell0(type) == [Type |-> type, I64 |-> <<0, 0, 0, 0, 0, 0, 0, 0>>, Str |-> <<>>]

\* decodeValues of one cell of the type: [panic, v]
decodeValue(in, type) ==
    IF type = TYPE_INT64
    THEN [panic |-> FALSE,
          v |-> IF Len(in) < 8 THEN Cell0(type)
                ELSE [Cell0(type) EXCEPT !.I64 = flipTop(SubSeq(in, 1, 8))]]
    ELSE IF firstZero(in, 1) > Len(in) THEN [panic |-> FALSE, v |-> Cell0(type)]
    ELSE [panic |-> unEscapeString(SubSeq(in, 1, firstZero(in, 1) - 1)).panic,
          v |-> [Cell0(type) EXCEPT
                    !.Str = unEscapeString(SubSeq(in, 1, firstZero(in, 1) - 1)).out]]

\* ---------------------------------------------------------------- actions
\* KV.Open after mmapInit answered e1 and masterLoad m
Opened(err, m) ==
    /\ proc' = IF err = "" THEN "running" ELSE "failed"
    /\ kv' = IF err = "" THEN [KV0 EXCEPT !.root = m.root, !.flushed = m.flushed,
                                          !.free.head = m.head]
             ELSE KV0
    /\ lastOp' = IF err = "" THEN "Open" ELSE err
    /\ hist' = IF err = "" THEN <<View(m.root)>> ELSE <<>>
    /\ durable' = IF err = "" /\ used.crash = 0 THEN {View(m.root)} ELSE durable

\* KV.Open on the file, by a new process
Open ==
    /\ proc = "closed"
    /\ Opened(IF mmapInit(file) # "" THEN mmapInit(file) ELSE masterLoad(file).err,
              masterLoad(file))
    /\ UNCHANGED <<file, pages, writer, wpc, tx, reader, atBegin, lastPop,
                   freedAt, lastMeta, expect, used>>
    /\ UNCHANGED <<db, res, rows>>

\* the KVTX that KV.Begin fills in
BeginTX ==
    [KVTX0 EXCEPT !.root = kv.root, !.version = kv.version,
                  !.free = [head |-> kv.free.head, nodes |-> kv.free.nodes,
                            total |-> kv.free.total, offset |-> kv.free.offset,
                            version |-> kv.version,
                            minReader |-> IF Len(kv.readers) > 0
                                          THEN kv.readers[1].version
                                          ELSE kv.version]]

\* KV.Begin that does not take the writer lock
Begin_NoLock(w) ==
    /\ proc = "running" /\ wpc[w] = "idle" /\ used.tx < TxBudget
    /\ writer' = w
    /\ wpc' = [wpc EXCEPT ![w] = "active"]
    /\ tx' = [tx EXCEPT ![w] = BeginTX]
    /\ atBegin' = [root |-> kv.root, version |-> kv.version, free |-> kv.free,
                   view |-> View(kv.root), flushed |-> kv.flushed,
                   old |-> OldPages]
    /\ expect' = atBegin'.view
    /\ used' = [used EXCEPT !.tx = @ + 1]
    /\ lastOp' = "Begin"
    /\ UNCHANGED <<proc, file, pages, kv, reader, hist, lastPop, freedAt,
                   durable, lastMeta>>
    /\ UNCHANGED <<db, res, rows>>

\* KV.Begin with a new KVTX
Begin(w) ==
    /\ proc = "running" /\ wpc[w] = "idle" /\ used.tx < TxBudget
    /\ writer = "none"
    /\ writer' = w
    /\ wpc' = [wpc EXCEPT ![w] = "active"]
    /\ tx' = [tx EXCEPT ![w] = BeginTX]
    /\ atBegin' = [root |-> kv.root, version |-> kv.version, free |-> kv.free,
                   view |-> View(kv.root), flushed |-> kv.flushed,
                   old |-> OldPages]
    /\ expect' = atBegin'.view
    /\ used' = [used EXCEPT !.tx = @ + 1]
    /\ lastOp' = "Begin"
    /\ UNCHANGED <<proc, file, pages, kv, reader, hist, lastPop, freedAt,
                   durable, lastMeta>>
    /\ UNCHANGED <<db, res, rows>>

\* a panic that nothing recovers ends the process
PanicStop(op) ==
    /\ proc' = "panicked"
    /\ lastOp' = op
    /\ UNCHANGED <<file, pages, kv, writer, wpc, tx, reader, hist, atBegin,
                   lastPop, freedAt, durable, lastMeta>>

\* KVTX.Set after Tree.Insert answered t
Inserted(w, t) ==
    IF t.panic
    THEN PanicStop("SetPanic")
    ELSE /\ FlushPages(w, t)
         /\ lastOp' = "Set"
         /\ UNCHANGED <<proc, writer, wpc, reader, hist, atBegin, durable, lastMeta>>

\* KVTX.Set: Tree.Insert, then flushPages
Set(w, key, val) ==
    /\ proc = "running" /\ wpc[w] = "active" /\ used.ops < OpsBudget
    /\ used' = [used EXCEPT !.ops = @ + 1]
    /\ expect' = [expect EXCEPT ![key] = val]
    /\ Inserted(w, Insert(tx[w], key, val))
    /\ UNCHANGED <<db, res, rows>>

\* KVTX.Delete after Tree.Delete answered d
Deleted(w, key, d) ==
    IF d.t.panic
    THEN PanicStop("DeletePanic") /\ UNCHANGED expect
    ELSE /\ FlushPages(w, d.t)
         /\ expect' = IF d.deleted THEN [expect EXCEPT ![key] = -1] ELSE expect
         /\ lastOp' = "Delete"
         /\ UNCHANGED <<proc, writer, wpc, reader, hist, atBegin, durable, lastMeta>>

\* KVTX.Delete after Get answered g
Looked(w, key, g) ==
    IF g.panic
    THEN PanicStop("DeletePanic") /\ UNCHANGED expect
    ELSE IF ValLen(g.val) = 0
    THEN /\ lastOp' = "DeleteNotFound"
         /\ UNCHANGED <<proc, file, pages, kv, writer, wpc, tx, reader,
                        hist, atBegin, lastPop, freedAt, durable,
                        lastMeta, expect>>
    ELSE Deleted(w, key, Delete(tx[w], key))

\* KVTX.Delete: Get, Tree.Delete, then flushPages
KVDelete(w, key) ==
    /\ proc = "running" /\ wpc[w] = "active" /\ used.ops < OpsBudget
    /\ used' = [used EXCEPT !.ops = @ + 1]
    /\ Looked(w, key, Get(tx[w], key))
    /\ UNCHANGED <<db, res, rows>>

\* KV.Abort
AbortTX(w) ==
    /\ proc = "running" /\ wpc[w] = "active"
    /\ writer' = "none"
    /\ wpc' = [wpc EXCEPT ![w] = "idle"]
    /\ tx' = [tx EXCEPT ![w] = KVTX0]
    /\ lastOp' = "Abort"
    /\ rows' = [rows EXCEPT !.tx = rows.committed]
    /\ UNCHANGED <<proc, file, pages, kv, reader, hist, atBegin, lastPop,
                   freedAt, durable, lastMeta, expect, used>>

\* KV.Abort, called by the user of the KV
Abort(w) == AbortTX(w) /\ UNCHANGED <<db, res>>

\* BTree.InsertEx after Get answered g and Insert t
Upserted(w, g, t) ==
    IF g.panic \/ t.panic
    THEN PanicStop("UpdatePanic")
    ELSE /\ tx' = [tx EXCEPT ![w] = Settle(t)]
         /\ lastOp' = "Update"
         /\ UNCHANGED <<proc, file, pages, kv, writer, wpc, reader, hist,
                        atBegin, lastPop, freedAt, durable, lastMeta>>

\* KVTX.Update in MODE_UPSERT: BTree.InsertEx looks the key up and calls
\* BTree.Insert; nothing is flushed
Update(w, key, val) ==
    /\ proc = "running" /\ wpc[w] = "active" /\ used.ops < OpsBudget
    /\ used' = [used EXCEPT !.ops = @ + 1]
    /\ expect' = [expect EXCEPT ![key] = val]
    /\ Upserted(w, Get(tx[w], key), Insert(tx[w], key, val))
    /\ UNCHANGED <<db, res, rows>>

\* the live keys of a key/value state from key k on, in ascending order
RECURSIVE liveFrom(_, _)
liveFrom(e, k) ==
    IF k \notin DOMAIN e THEN <<>>
    ELSE (IF e[k] # -1 THEN <<k>> ELSE <<>>) \o liveFrom(e, k + 1)

\* BTree.Insert on the tree of the transaction, called directly
BTreeInsert(w, key, val) ==
    /\ proc = "running" /\ wpc[w] = "active" /\ used.ops < OpsBudget
    /\ used' = [used EXCEPT !.ops = @ + 1]
    /\ res' = [op |-> "Insert", key |-> key, val |-> val,
               err |-> InsertError(key, val),
               root |-> tx[w].root, view |-> TxView(tx[w])]
    /\ expect' = IF res'.err = "" THEN [expect EXCEPT ![key] = val] ELSE expect
    /\ IF Insert(tx[w], key, val).panic
       THEN PanicStop("InsertPanic") /\ UNCHANGED tx
       ELSE /\ tx' = [tx EXCEPT ![w] = Settle(Insert(tx[w], key, val))]
            /\ lastOp' = "Insert"
            /\ UNCHANGED <<proc, file, pages, kv, writer, wpc, reader, hist,
                           atBegin, lastPop, freedAt, durable, lastMeta>>
    /\ UNCHANGED <<db, rows>>

\* BTree.Delete on the tree of the transaction, called directly
BTreeDelete(w, key) ==
    /\ proc = "running" /\ wpc[w] = "active" /\ used.ops < OpsBudget
    /\ used' = [used EXCEPT !.ops = @ + 1]
    /\ res' = [op |-> "Delete", key |-> key,
               deleted |-> Delete(tx[w], key).deleted]
    /\ expect' = IF res'.deleted THEN [expect EXCEPT ![key] = -1] ELSE expect
    /\ IF Delete(tx[w], key).t.panic
       THEN PanicStop("DeletePanic") /\ UNCHANGED tx
       ELSE /\ tx' = [tx EXCEPT ![w] = Settle(Delete(tx[w], key).t)]
            /\ lastOp' = "Delete"
            /\ UNCHANGED <<proc, file, pages, kv, writer, wpc, reader, hist,
                           atBegin, lastPop, freedAt, durable, lastMeta>>
    /\ UNCHANGED <<db, rows>>

\* KVTX.Seek to the smallest key of the transaction, then the loop of
\* Deref and Next while the iterator is valid; one visit more than there
\* are keys is observed
Traverse(w) ==
    /\ proc = "running" /\ wpc[w] = "active"
    /\ liveFrom(expect, 1) # <<>>
    /\ res' = [op |-> "Traverse",
               live |-> liveFrom(expect, 1),
               scan |-> visit(tx[w], Seek(tx[w], liveFrom(expect, 1)[1], CMP_GE),
                              <<>>, Cardinality(Keys) + 1)]
    /\ UNCHANGED <<proc, file, pages, kv, writer, wpc, tx, reader, hist,
                   lastOp, atBegin, lastPop, freedAt, durable, lastMeta,
                   expect, used, db, rows>>

\* -------------------------------------------------------- table interface
\* the numbers and the strings of the rows
Ids == 0..MaxId

Strs == StrRank("a")..(StrRank("a") + MaxStr - 1)

\* the table definitions given to TableNew
UsersDef ==
    [Name |-> "users", Cols |-> UsersCols, Types |-> <<TYPE_INT64, TYPE_BYTES>>,
     PKeys |-> 1, Indexes |-> <<>>]

ItemsDef ==
    [Name |-> "items", Cols |-> ItemsCols,
     Types |-> <<TYPE_INT64, TYPE_BYTES, TYPE_INT64>>,
     PKeys |-> 1, Indexes |-> <<(<<"cat">>)>>]

NewTables == {UsersDef, ItemsDef}

\* checkIndexKeys that leaves the index as it was given
checkIndexKeys_AsGiven(tdef, index) == index

\* checkIndexKeys: the index with the primary key columns it lacks
checkIndexKeys(tdef, index) ==
    index \o SelectSeq(SubSeq(tdef.Cols, 1, tdef.PKeys),
                       LAMBDA c : indexOf(index, c) = 0)

\* the error of checkIndexKeys
indexKeysErr(tdef, index) ==
    IF \E j \in 1..Len(index) : indexOf(tdef.Cols, index[j]) = 0
    THEN "invalid index column"
    ELSE IF Len(checkIndexKeys(tdef, index)) >= Len(tdef.Cols)
    THEN "index len should be shorter than columns"
    ELSE ""

\* the loop of tableDefCheck over the columns, from column i: the first error
RECURSIVE colsErr(_, _)
colsErr(tdef, i) ==
    IF i > Len(tdef.Cols) THEN ""
    ELSE IF tdef.Cols[i] = "" THEN "column name cannot be empty"
    ELSE IF \E j \in 1..(i - 1) : tdef.Cols[j] = tdef.Cols[i]
    THEN "duplicate column name"
    ELSE IF tdef.Types[i] # TYPE_BYTES /\ tdef.Types[i] # TYPE_INT64
    THEN "invalid data type"
    ELSE colsErr(tdef, i + 1)

\* the loop of tableDefCheck over the indexes, from index i: the first error
RECURSIVE indexesErr(_, _)
indexesErr(tdef, i) ==
    IF i > Len(tdef.Indexes) THEN ""
    ELSE IF indexKeysErr(tdef, tdef.Indexes[i]) # ""
    THEN indexKeysErr(tdef, tdef.Indexes[i])
    ELSE indexesErr(tdef, i + 1)

\* tableDefCheck: the error
tableDefCheck(tdef) ==
    IF tdef.Name = "" THEN "table name cannot be empty"
    ELSE IF Len(tdef.Cols) = 0 THEN "table must have at least one column"
    ELSE IF Len(tdef.Cols) # Len(tdef.Types)
    THEN "length of columns & types do not match"
    ELSE IF colsErr(tdef, 1) # "" THEN colsErr(tdef, 1)
    ELSE IF tdef.PKeys > 1 THEN "only one primary key is allowed"
    ELSE indexesErr(tdef, 1)

\* the definition TableNew stores: the indexes as tableDefCheck left them
\* and the prefixes
newTdef(def, prefix) ==
    TableDef(def.Name, def.Cols, def.Types, def.PKeys,
             [i \in 1..Len(def.Indexes) |-> checkIndexKeys(def, def.Indexes[i])],
             prefix)

\* the prefix TableNew gives, after dbGet of the row next_prefix answered m
newPrefix(m) == IF m.ok THEN RecGet(m.rec, "val").v ELSE TABLE_PREFIX_MIN

\* the prefixes that the tables of a behaviour can get
Prefixes == TABLE_PREFIX_MIN..(TABLE_PREFIX_MIN + MaxPrefixes - 1)

\* the keys the tables can put into the tree
DBKeys ==
    {encodeKey(TDEF_META.Prefix, <<Str(StrRank("next_prefix"))>>)}
        \cup {encodeKey(TDEF_TABLE.Prefix, <<Str(StrRank(StoredDefs[i].Name))>>) :
                  i \in 1..Len(StoredDefs)}
        \cup {encodeKey(p, <<I64(i)>>) : p \in Prefixes, i \in Ids}
        \cup {encodeKey(p, <<Str(c)>>) : p \in Prefixes, c \in Strs}
        \cup {encodeKey(p, <<Str(c), I64(i)>>) : p \in Prefixes, c \in Strs, i \in Ids}

\* the pairs of these keys that a lookup through a tree finds
DBView(t) == [k \in DBKeys |-> Code(Get(t, k))]

\* the key of an entry of the i-th index for the row
indexKey(tdef, i, rec) ==
    encodeKey(tdef.IndexPrefix[i],
              [j \in 1..Len(tdef.Indexes[i]) |-> RecGet(rec, tdef.Indexes[i][j])])

\* the row that dbUpdate and dbDelete hand to indexOp(INDEX_DEL): the key
\* and the cells decoded from the old value
oldRow(tdef, vals, old) ==
    Rec(tdef.Cols,
        SubSeq(vals, 1, tdef.PKeys)
            \o decodeValues(old, SubSeq(tdef.Types, tdef.PKeys + 1, Len(tdef.Types))))

\* KVTX.Delete of indexOp answers done only for a pair with a value
delDone(t, key) == ValLen(Get(t, key).val) # 0

\* the rows of the history with one more, or one less
putRow(set, table, vals) ==
    {x \in set : x.table # table \/ x.vals[1] # vals[1]}
        \cup {[table |-> table, vals |-> vals]}

dropRow(set, table, vals) ==
    {x \in set : x.table # table \/ x.vals[1] # vals[1]}

\* the thread is outside every call of the table interface
DBIdle(w) == proc = "running" /\ wpc[w] = "active" /\ db.pc = "idle"

\* a call that returns without a write
Returned(r, tables) ==
    /\ res' = r
    /\ db' = [db EXCEPT !.tables = tables]
    /\ UNCHANGED <<proc, file, pages, kv, writer, wpc, tx, reader, hist, lastOp,
                   atBegin, lastPop, freedAt, durable, lastMeta, expect, used,
                   rows>>

\* a write that is flushed, and then the assert of indexOp
FlushPanic(w, t) ==
    IF t.panic
    THEN PanicStop("SetPanic")
    ELSE /\ FlushPages(w, t)
         /\ proc' = "panicked"
         /\ lastOp' = "IndexPanic"
         /\ UNCHANGED <<writer, wpc, reader, hist, atBegin, durable, lastMeta>>

NewRes(def, err, done) ==
    [op |-> "TableNew", table |-> def.Name, def |-> def, err |-> err,
     why |-> tableDefCheck(def), done |-> done]

\* TableNew up to dbUpdate of the row next_prefix
tableNewMeta(w, def, tdef) ==
    /\ Inserted(w, Insert(tx[w],
                          encodeKey(TDEF_META.Prefix, <<Str(StrRank("next_prefix"))>>),
                          encodeValues(<<Str(tdef.Prefix + 1 + Len(tdef.IndexPrefix))>>)))
    /\ db' = [db EXCEPT !.pc = "TableNew", !.arg = tdef]
    /\ res' = NewRes(def, "", FALSE)
    /\ used' = [used EXCEPT !.ops = @ + 1]
    /\ UNCHANGED <<expect, rows>>

\* tableNewAt that does not look whether the table is there
tableNewAt_NoExistCheck(w, def, g, m) ==
    IF tableDefCheck(def) # ""
    THEN Returned(NewRes(def, "invalid table definition", TRUE), db.tables)
    ELSE IF g.panic \/ m.panic
    THEN PanicStop("TableNewPanic") /\ UNCHANGED <<db, res, rows, expect, used>>
    ELSE tableNewMeta(w, def, newTdef(def, newPrefix(m)))

\* TableNew after dbGet of the table answered g and of next_prefix m
tableNewAt(w, def, g, m) ==
    IF tableDefCheck(def) # ""
    THEN Returned(NewRes(def, "invalid table definition", TRUE), db.tables)
    ELSE IF g.panic \/ m.panic
    THEN PanicStop("TableNewPanic") /\ UNCHANGED <<db, res, rows, expect, used>>
    ELSE IF g.ok
    THEN Returned(NewRes(def, "table already exists", TRUE), db.tables)
    ELSE tableNewMeta(w, def, newTdef(def, newPrefix(m)))

\* DB.TableNew, up to the first write
TableNew(w, def) ==
    /\ DBIdle(w) /\ used.ops + 2 <= OpsBudget
    /\ tableNewAt(w, def,
                  dbGet(TDEF_TABLE, Rec(<<"name">>, <<Str(StrRank(def.Name))>>), tx[w]),
                  dbGet(TDEF_META, Rec(<<"key">>, <<Str(StrRank("next_prefix"))>>), tx[w]))

\* DB.TableNew, the second write: dbUpdate of the row of the definition
TableNewDef(w) ==
    /\ proc = "running" /\ wpc[w] = "active" /\ db.pc = "TableNew"
    /\ Inserted(w, Insert(tx[w],
                          encodeKey(TDEF_TABLE.Prefix, <<Str(StrRank(db.arg.Name))>>),
                          encodeValues(<<Str(TdefCode(db.arg))>>)))
    /\ db' = [db EXCEPT !.pc = "idle", !.arg = <<>>]
    /\ res' = [res EXCEPT !.done = TRUE]
    /\ used' = [used EXCEPT !.ops = @ + 1]
    /\ rows' = [rows EXCEPT !.tx = putRow(@, TDEF_TABLE.Name,
                                          <<Str(StrRank(db.arg.Name))>>)]
    /\ UNCHANGED expect

\* what DB.Set and DB.Delete answer; mode -1 is a Delete
SetResOf(view, table, rec, mode, err) ==
    [op |-> "Set", table |-> table, rec |-> rec, mode |-> mode, err |-> err,
     before |-> view, after |-> view, got |-> <<>>,
     indexed |-> FALSE, panic |-> FALSE, done |-> TRUE]

SetRes(w, table, rec, mode, err) == SetResOf(DBView(tx[w]), table, rec, mode, err)

\* the same once the tree is t: the row a dbGet by the key finds in it
Written(r, tdef, vals, t) ==
    [r EXCEPT !.after = IF t.panic THEN @ ELSE DBView(t),
              !.got = IF t.panic THEN <<>>
                      ELSE dbGet(tdef, Rec(SubSeq(tdef.Cols, 1, tdef.PKeys),
                                           SubSeq(vals, 1, tdef.PKeys)), t),
              !.indexed = Len(tdef.Indexes) > 0,
              !.panic = t.panic]

\* dbUpdate after KVTX.Set of the row: Get answered g and Insert t
setDone(w, tdef, rec, mode, tables, vals, g, t) ==
    /\ used' = [used EXCEPT !.ops = @ + 1]
    /\ rows' = [rows EXCEPT !.tx = putRow(@, tdef.Name, vals)]
    /\ UNCHANGED expect
    /\ IF Len(tdef.Indexes) = 0 \/ t.panic
       THEN /\ Inserted(w, t)
            /\ db' = [db EXCEPT !.tables = tables]
            /\ res' = Written(SetRes(w, tdef.Name, rec, mode, ""), tdef, vals, t)
       ELSE IF mode # MODE_INSERT_ONLY
               /\ ~delDone(t, indexKey(tdef, 1, oldRow(tdef, vals,
                                                       IF g.found THEN g.val ELSE 0)))
       THEN /\ FlushPanic(w, t)
            /\ db' = [db EXCEPT !.tables = tables]
            /\ res' = [Written(SetRes(w, tdef.Name, rec, mode, ""), tdef, vals, t)
                          EXCEPT !.panic = TRUE, !.done = FALSE]
       ELSE /\ Inserted(w, t)
            /\ db' = [db EXCEPT !.tables = tables, !.pc = "index",
                                !.arg = [tdef |-> tdef, rec |-> rec, vals |-> vals]]
            /\ res' = [Written(SetRes(w, tdef.Name, rec, mode, ""), tdef, vals, t)
                          EXCEPT !.done = FALSE]

\* KVTX.SetWithMode of the row
setWithMode(w, tdef, rec, mode, tables, vals, key, val) ==
    IF Get(tx[w], key).panic
    THEN /\ PanicStop("SetPanic")
         /\ db' = [db EXCEPT !.tables = tables]
         /\ res' = [SetRes(w, tdef.Name, rec, mode, "") EXCEPT !.panic = TRUE]
         /\ UNCHANGED <<expect, used, rows>>
    ELSE IF mode = MODE_UPDATE_ONLY /\ ~Get(tx[w], key).found
    THEN Returned(SetRes(w, tdef.Name, rec, mode, "record not found"), tables)
    ELSE IF mode = MODE_INSERT_ONLY /\ Get(tx[w], key).found
    THEN Returned(SetRes(w, tdef.Name, rec, mode, "record already exists"), tables)
    ELSE setDone(w, tdef, rec, mode, tables, vals, Get(tx[w], key),
                 Insert(tx[w], key, val))

\* dbUpdate after checkRecord answered c
setChecked(w, tdef, rec, mode, tables, c) ==
    IF c.err # ""
    THEN Returned(SetRes(w, tdef.Name, rec, mode, c.err), tables)
    ELSE IF ~validateTableTypes(tdef, rec)
    THEN Returned(SetRes(w, tdef.Name, rec, mode, "invalid type"), tables)
    ELSE setWithMode(w, tdef, rec, mode, tables, c.vals,
                     encodeKey(tdef.Prefix, SubSeq(c.vals, 1, tdef.PKeys)),
                     encodeValues(SubSeq(c.vals, tdef.PKeys + 1, Len(c.vals))))

\* DB.Set after GetTableDef answered found
setTable(w, table, rec, mode, found) ==
    IF found = {}
    THEN Returned(SetRes(w, table, rec, mode, "table not found"), db.tables)
    ELSE /\ used.ops + 1 + Len((CHOOSE d \in found : TRUE).Indexes) <= OpsBudget
         /\ setChecked(w, CHOOSE d \in found : TRUE, rec, mode, db.tables \cup found,
                       checkRecord(CHOOSE d \in found : TRUE, rec,
                                   Len((CHOOSE d \in found : TRUE).Cols)))

\* DB.Set (Insert, Update and Upsert), up to the write of the row
DBSet(w, table, rec, mode) ==
    /\ DBIdle(w)
    /\ setTable(w, table, rec, mode, GetTableDef(db.tables, table, tx[w]))

\* DB.Set of a new row of a table with an index, the second write:
\* indexOp(INDEX_ADD) puts the entry of the index, without a value
IndexAdd(w) ==
    /\ proc = "running" /\ wpc[w] = "active" /\ db.pc = "index"
    /\ Inserted(w, Insert(tx[w], indexKey(db.arg.tdef, 1, db.arg.rec), 0))
    /\ db' = [db EXCEPT !.pc = "idle", !.arg = <<>>]
    /\ res' = [Written(res, db.arg.tdef, db.arg.vals,
                       Insert(tx[w], indexKey(db.arg.tdef, 1, db.arg.rec), 0))
                  EXCEPT !.done = ~Insert(tx[w], indexKey(db.arg.tdef, 1, db.arg.rec), 0).panic]
    /\ used' = [used EXCEPT !.ops = @ + 1]
    /\ UNCHANGED <<expect, rows>>

\* dbDelete after KVTX.Delete of the row: Get answered g and Delete d
delDone2(w, tdef, rec, tables, vals, g, d) ==
    /\ used' = [used EXCEPT !.ops = @ + 1]
    /\ rows' = IF d.deleted THEN [rows EXCEPT !.tx = dropRow(@, tdef.Name, vals)]
               ELSE rows
    /\ UNCHANGED expect
    /\ db' = [db EXCEPT !.tables = tables]
    /\ IF Len(tdef.Indexes) = 0 \/ ~d.deleted \/ d.t.panic
              \/ delDone(d.t, indexKey(tdef, 1, oldRow(tdef, vals, g.val)))
       THEN /\ Inserted(w, d.t)
            /\ res' = Written(SetRes(w, tdef.Name, rec, -1, ""), tdef, vals, d.t)
       ELSE /\ FlushPanic(w, d.t)
            /\ res' = [Written(SetRes(w, tdef.Name, rec, -1, ""), tdef, vals, d.t)
                          EXCEPT !.panic = TRUE, !.done = FALSE]

\* KVTX.Delete of the row
delWithKey(w, tdef, rec, tables, vals, key) ==
    IF Get(tx[w], key).panic
    THEN /\ PanicStop("DeletePanic")
         /\ db' = [db EXCEPT !.tables = tables]
         /\ res' = [SetRes(w, tdef.Name, rec, -1, "") EXCEPT !.panic = TRUE]
         /\ UNCHANGED <<expect, used, rows>>
    ELSE IF ValLen(Get(tx[w], key).val) = 0
    THEN Returned(SetRes(w, tdef.Name, rec, -1, "record not found"), tables)
    ELSE delDone2(w, tdef, rec, tables, vals, Get(tx[w], key), Delete(tx[w], key))

\* dbDelete after checkRecord answered c
delChecked(w, tdef, rec, tables, c) ==
    IF c.err # ""
    THEN Returned(SetRes(w, tdef.Name, rec, -1, c.err), tables)
    ELSE delWithKey(w, tdef, rec, tables, c.vals,
                    encodeKey(tdef.Prefix, SubSeq(c.vals, 1, tdef.PKeys)))

\* DB.Delete after GetTableDef answered found
delTable(w, table, rec, found) ==
    IF found = {}
    THEN Returned(SetRes(w, table, rec, -1, "table not found"), db.tables)
    ELSE /\ used.ops + 1 <= OpsBudget
         /\ delChecked(w, CHOOSE d \in found : TRUE, rec, db.tables \cup found,
                       checkRecord(CHOOSE d \in found : TRUE, rec,
                                   (CHOOSE d \in found : TRUE).PKeys))

\* DB.Delete
DBDelete(w, table, rec) ==
    /\ DBIdle(w)
    /\ delTable(w, table, rec, GetTableDef(db.tables, table, tx[w]))

\* the tree of a KVReader
ReaderTree(root) == [KVTX0 EXCEPT !.root = root]

\* the rows of a table among the rows of the history, in the order of the
\* primary key
RECURSIVE sortRows(_)
sortRows(set) ==
    IF set = {} THEN <<>>
    ELSE <<(CHOOSE x \in set : \A y \in set : Digit(x.vals[1]) <= Digit(y.vals[1])).vals>>
             \o sortRows(set \ {CHOOSE x \in set : \A y \in set :
                                    Digit(x.vals[1]) <= Digit(y.vals[1])})

rowsOf(set, table) == sortRows({x \in set : x.table = table})

\* a read call that ends: by a return or by a panic
ReadEnd(op, panic) ==
    /\ proc' = IF panic THEN "panicked" ELSE proc
    /\ lastOp' = IF panic THEN op ELSE lastOp
    /\ UNCHANGED <<file, pages, writer, wpc, tx, reader, hist, atBegin, lastPop,
                   freedAt, durable, lastMeta, expect, used, rows>>

\* DB.GetRange after GetTableDef answered found and the scan out
rangeEnd(r, table, start, end, found, out) ==
    /\ res' = [op |-> "GetRange", table |-> table, start |-> start, end |-> end,
               found |-> found # {}, err |-> out.err, rows |-> out.rows,
               panic |-> out.panic, snap |-> rowsOf(rows.snap[r], table)]
    /\ db' = [db EXCEPT !.tables = @ \cup found]
    /\ ReadEnd("GetRangePanic", out.panic)
    /\ UNCHANGED kv

rangeFound(r, table, start, end, found) ==
    IF found = {}
    THEN rangeEnd(r, table, start, end, found,
                  [rows |-> <<>>, err |-> "table not found", panic |-> FALSE])
    ELSE rangeEnd(r, table, start, end, found,
                  rangeOf(ReaderTree(reader[r].root),
                          dbScan(CHOOSE d \in found : TRUE, rangeReq(start, end),
                                 ReaderTree(reader[r].root))))

\* DB.GetRange through a KVReader
GetRange(r, table, start, end) ==
    /\ proc = "running" /\ reader[r].active
    /\ rangeFound(r, table, start, end,
                  GetTableDef(db.tables, table, ReaderTree(reader[r].root)))

\* the registry after getAllRecords and fullTableScan each registered a
\* KVReader of their own and removed it
scanReaders(rl, e) == heapRemove(heapRemove(heapPush(heapPush(rl, e), e), 0), 0)

allEnd(table, found, out) ==
    /\ res' = [op |-> "Scan", table |-> table, found |-> found # {},
               err |-> out.err, rows |-> out.rows, panic |-> out.panic,
               snap |-> rowsOf(rows.committed, table)]
    /\ db' = [db EXCEPT !.tables = @ \cup found]
    /\ ReadEnd("ScanPanic", out.panic)
    /\ kv' = [kv EXCEPT !.readers =
                  scanReaders(@, [id |-> "scan", version |-> kv.version, index |-> 0])]

allFound(table, found) ==
    IF found = {}
    THEN allEnd(table, found, [rows |-> <<>>, err |-> "table not found", panic |-> FALSE])
    ELSE allEnd(table, found,
                fullTableScan(ReaderTree(kv.root), CHOOSE d \in found : TRUE))

\* getAllRecords: GetTableDef through a KVReader, then fullTableScan
getAllRecords(table) ==
    /\ proc = "running"
    /\ allFound(table, GetTableDef(db.tables, table, ReaderTree(kv.root)))

\* the loop of a caller of DB.Scan: while the Scanner is valid, Deref and
\* Next; the table has fewer rows than the loop has turns
RECURSIVE scanLoop(_, _, _, _)
scanLoop(t, sc, results, turns) ==
    IF sc.iter.panic
    THEN [rows |-> results, err |-> "", panic |-> TRUE]
    ELSE IF ScValid(sc) /\ turns > 0
    THEN scanLoop(t, ScNext(t, sc), Append(results, ScDeref(t, sc).Vals), turns - 1)
    ELSE [rows |-> results, err |-> "", panic |-> FALSE]

\* DB.Scan after GetTableDef answered found and the scan out
scanEnd(table, req, found, out) ==
    /\ res' = [op |-> "DBScan", table |-> table, req |-> req,
               found |-> found # {}, err |-> out.err, rows |-> out.rows,
               panic |-> out.panic, snap |-> rowsOf(rows.tx, table)]
    /\ db' = [db EXCEPT !.tables = @ \cup found]
    /\ ReadEnd("ScanPanic", out.panic)
    /\ UNCHANGED kv

scanFound(w, table, req, found, sc) ==
    IF found = {}
    THEN scanEnd(table, req, found,
                 [rows |-> <<>>, err |-> "table not found", panic |-> FALSE])
    ELSE IF sc.err # ""
    THEN scanEnd(table, req, found, [rows |-> <<>>, err |-> sc.err, panic |-> FALSE])
    ELSE scanEnd(table, req, found, scanLoop(tx[w], sc, <<>>, MaxId + 2))

\* DBTX.Scan: DB.Scan on the tree of the transaction, and the loop of the
\* caller over the Scanner
DBScan(w, table, req) ==
    /\ DBIdle(w)
    /\ scanFound(w, table, req, GetTableDef(db.tables, table, tx[w]),
                 IF GetTableDef(db.tables, table, tx[w]) = {} THEN NoScanner
                 ELSE dbScan(CHOOSE d \in GetTableDef(db.tables, table, tx[w]) : TRUE,
                             req, tx[w]))

\* rollbackTX: what it leaves in the KV
rollbackTX(k, t) == [k EXCEPT !.root = t.root, !.free = FreeListDataOf(t.free)]

\* the KV once the transaction is visible
Published(k, t) ==
    [k EXCEPT !.flushed = @ + t.nappend, !.free = FreeListDataOf(t.free),
              !.root = t.root, !.version = @ + 1]

\* the outcomes of the I/O of a Commit: all of it succeeds; extendFile
\* fails in writePages; the first fsync fails; the write of the master page
\* fails; the second fsync fails; the process stops between the first
\* fsync and the write of the master page
CommitIO == {"ok", "extend_fail", "fsync_fail", "pwrite_fail", "fsync2_fail", "stop"}

\* the end of the writing process and its threads
Stopped ==
    /\ proc' = "closed"
    /\ kv' = KV0
    /\ reader' = [r \in DOMAIN reader |-> KVReader0]
    /\ hist' = <<>>
    /\ atBegin' = NoBegin
    /\ lastPop' = NoPop
    /\ freedAt' = [p \in PageNos |-> -1]
    /\ expect' = [k \in Keys |-> -1]
    /\ lastOp' = "Crash"

\* KV.Commit of a transaction without updates
CommitNoop(w) ==
    /\ lastOp' = "CommitNoop"
    /\ UNCHANGED <<proc, file, pages, kv, reader, hist, durable,
                   lastMeta, used, atBegin, lastPop, freedAt, expect>>

\* KV.Commit after writePages answered wp, with k1 the KV it publishes and
\* view the key/value state of the transaction
CommitEnd(io, freed, wp, k1, view) ==
    /\ InBounds(wp.t)
    /\ io = "stop" => used.crash < MaxCrash
    /\ io \notin {"ok", "stop"} => used.fail < MaxFail
    /\ used' = IF io = "ok" THEN used
               ELSE IF io = "stop" THEN [used EXCEPT !.crash = @ + 1]
               ELSE [used EXCEPT !.fail = @ + 1]
    /\ pages' = IF io = "extend_fail" THEN pages ELSE wp.pages
    /\ file' = CASE io = "extend_fail" -> file
                 [] io \in {"ok", "fsync2_fail"} ->
                        [file EXCEPT !.npages = extendFile(@, wp.npages),
                                     !.master = masterStore(k1, @)]
                 [] OTHER -> [file EXCEPT !.npages = extendFile(@, wp.npages)]
    /\ durable' = CASE io = "ok" -> {view}
                    [] io = "fsync2_fail" -> durable \cup {view}
                    [] OTHER -> durable
    /\ lastMeta' = IF io = "ok"
                   THEN [meta |-> MetaOf(k1), master |-> masterStore(k1, file.master)]
                   ELSE lastMeta
    /\ IF io = "stop"
       THEN Stopped
       ELSE /\ kv' = IF io \in {"extend_fail", "fsync_fail"}
                     THEN rollbackTX(kv, wp.t) ELSE k1
            /\ hist' = IF io \in {"extend_fail", "fsync_fail"}
                       THEN hist ELSE Append(hist, view)
            /\ freedAt' = IF io = "extend_fail" THEN freedAt
                          ELSE MarkFreed(freed, wp.t.free.version)
            /\ lastOp' = CASE io = "ok" -> "CommitOk"
                           [] io \in {"extend_fail", "fsync_fail"} -> "CommitFailed"
                           [] OTHER -> "CommitError"
            /\ UNCHANGED <<proc, reader, atBegin, lastPop, expect>>

CommitWritten(io, freed, wp) ==
    CommitEnd(io, freed, wp, Published(kv, wp.t), TxView(wp.t))

\* KV.Commit that writes and publishes whether or not the root has changed
CommitTX_NoRootCheck(w, io) ==
    /\ proc = "running" /\ wpc[w] = "active"
    /\ writer' = "none"
    /\ wpc' = [wpc EXCEPT ![w] = "idle"]
    /\ tx' = [tx EXCEPT ![w] = KVTX0]
    /\ \E freed \in Perms(freedSet(tx[w])) :
           CommitWritten(io, freed, writePages(tx[w], freed))
    /\ rows' = IF io \in {"extend_fail", "fsync_fail", "stop"}
               THEN [rows EXCEPT !.tx = rows.committed]
               ELSE [rows EXCEPT !.committed = rows.tx]

\* KV.Commit
CommitTX(w, io) ==
    /\ proc = "running" /\ wpc[w] = "active"
    /\ writer' = "none"
    /\ wpc' = [wpc EXCEPT ![w] = "idle"]
    /\ tx' = [tx EXCEPT ![w] = KVTX0]
    /\ IF kv.root = tx[w].root
       THEN io = "ok" /\ CommitNoop(w)
       ELSE \E freed \in Perms(freedSet(tx[w])) :
                CommitWritten(io, freed, writePages(tx[w], freed))
    /\ rows' = IF kv.root = tx[w].root \/ io \in {"extend_fail", "fsync_fail", "stop"}
               THEN [rows EXCEPT !.tx = rows.committed]
               ELSE [rows EXCEPT !.committed = rows.tx]

\* KV.Commit, called by the user of the KV
Commit(w, io) == CommitTX(w, io) /\ UNCHANGED <<db, res>>

\* what a KVTX keeps once its transaction has ended: KV.Begin fills in
\* every other field again, page.nappend it leaves as it finds it
Kept(t) == [KVTX0 EXCEPT !.nappend = t.nappend]

\* KV.Begin with the KVTX of an earlier transaction of the thread
BeginReused(w) ==
    /\ proc = "running" /\ wpc[w] = "idle" /\ used.tx < TxBudget
    /\ writer = "none"
    /\ writer' = w
    /\ wpc' = [wpc EXCEPT ![w] = "active"]
    /\ tx' = [tx EXCEPT ![w] = [BeginTX EXCEPT !.nappend = tx[w].nappend]]
    /\ atBegin' = [root |-> kv.root, version |-> kv.version, free |-> kv.free,
                   view |-> View(kv.root), flushed |-> kv.flushed,
                   old |-> OldPages]
    /\ expect' = atBegin'.view
    /\ used' = [used EXCEPT !.tx = @ + 1]
    /\ lastOp' = "Begin"
    /\ UNCHANGED <<proc, file, pages, kv, reader, hist, lastPop, freedAt,
                   durable, lastMeta>>
    /\ UNCHANGED <<db, res, rows>>

\* KV.Abort of a KVTX that the thread uses again
AbortKept(w) ==
    /\ proc = "running" /\ wpc[w] = "active"
    /\ writer' = "none"
    /\ wpc' = [wpc EXCEPT ![w] = "idle"]
    /\ tx' = [tx EXCEPT ![w] = Kept(tx[w])]
    /\ lastOp' = "Abort"
    /\ rows' = [rows EXCEPT !.tx = rows.committed]
    /\ UNCHANGED <<proc, file, pages, kv, reader, hist, atBegin, lastPop,
                   freedAt, durable, lastMeta, expect, used>>
    /\ UNCHANGED <<db, res>>

\* KV.Commit of a KVTX that the thread uses again: rollbackTX sets
\* page.nappend to 0
CommitKept(w, io) ==
    /\ proc = "running" /\ wpc[w] = "active"
    /\ writer' = "none"
    /\ wpc' = [wpc EXCEPT ![w] = "idle"]
    /\ tx' = [tx EXCEPT ![w] = IF kv.root # tx[w].root
                                    /\ io \in {"extend_fail", "fsync_fail"}
                                 THEN KVTX0 ELSE Kept(tx[w])]
    /\ IF kv.root = tx[w].root
       THEN io = "ok" /\ CommitNoop(w)
       ELSE \E freed \in Perms(freedSet(tx[w])) :
                CommitWritten(io, freed, writePages(tx[w], freed))
    /\ rows' = IF kv.root = tx[w].root \/ io \in {"extend_fail", "fsync_fail"}
               THEN [rows EXCEPT !.tx = rows.committed]
               ELSE [rows EXCEPT !.committed = rows.tx]
    /\ UNCHANGED <<db, res>>

\* KV.BeginRead with a new KVReader
BeginRead(r) ==
    /\ proc = "running" /\ ~reader[r].active
    /\ reader' = [reader EXCEPT ![r] = [active |-> TRUE, version |-> kv.version,
                                        root |-> kv.root, index |-> 0]]
    /\ kv' = [kv EXCEPT !.readers = heapPush(@, Entry(r, reader'[r]))]
    /\ rows' = [rows EXCEPT !.snap[r] = rows.committed]
    /\ UNCHANGED <<proc, file, pages, writer, wpc, tx, hist, atBegin, lastPop,
                   freedAt, durable, lastMeta, expect, used, lastOp>>
    /\ UNCHANGED <<db, res>>

\* KV.EndRead
EndRead(r) ==
    /\ proc = "running" /\ reader[r].active
    /\ kv' = [kv EXCEPT !.readers = heapRemove(@, reader[r].index)]
    /\ reader' = [reader EXCEPT ![r] = KVReader0]
    /\ UNCHANGED <<proc, file, pages, writer, wpc, tx, hist, atBegin, lastPop,
                   freedAt, durable, lastMeta, expect, used, lastOp>>
    /\ UNCHANGED <<db, res, rows>>

\* the process stops; the file keeps what was written to it
Stop ==
    /\ proc = "running" /\ used.crash < MaxCrash
    /\ used' = [used EXCEPT !.crash = @ + 1]
    /\ writer' = "none"
    /\ wpc' = [w \in Writers |-> "idle"]
    /\ tx' = [w \in Writers |-> KVTX0]
    /\ Stopped
    /\ rows' = [rows EXCEPT !.tx = rows.committed]
    /\ UNCHANGED <<file, pages, durable, lastMeta>>

\* the process of a KV stops
Crash == Stop /\ UNCHANGED <<db, res>>

\* the process of a DB stops; the next one starts with a new DB
Restart ==
    /\ Stop
    /\ db' = [DB0 EXCEPT !.spent = db.spent]
    /\ res' = NoRes

\* ------------------------------------------------- KV.Commit, call by call
\* the calls that do I/O succeed or fail
CallIO == {"ok", "fail"}

\* a Commit at work: the I/O calls that succeeded so far, the dirty map and
\* the master page it started with
CommitRes(log, dirty, master, err, done) ==
    [op |-> "Commit", log |-> log, dirty |-> dirty, master |-> master,
     err |-> err, done |-> done]

\* the deferred kv.writer.Unlock() and the return of KV.Commit
commitReturn(w, r) ==
    /\ writer' = "none"
    /\ wpc' = [wpc EXCEPT ![w] = "idle"]
    /\ tx' = [tx EXCEPT ![w] = KVTX0]
    /\ db' = [db EXCEPT !.pc = "idle"]
    /\ res' = r
    /\ lastOp' = IF r.err = "" THEN "CommitOk" ELSE "CommitError"

commitGoesOn(pc, r) ==
    /\ db' = [db EXCEPT !.pc = pc]
    /\ res' = r
    /\ lastOp' = "Commit"
    /\ UNCHANGED <<writer, wpc>>

commitIO(io) ==
    /\ io = "fail" => used.fail < MaxFail
    /\ used' = IF io = "fail" THEN [used EXCEPT !.fail = @ + 1] ELSE used
    /\ UNCHANGED <<proc, reader, atBegin, lastPop, freedAt, durable, lastMeta,
                   expect, rows>>

\* KV.Commit up to the return of writePages
commitWrite(w, io) ==
    /\ proc = "running" /\ wpc[w] = "active" /\ db.pc = "idle"
    /\ commitIO(io)
    /\ IF kv.root = tx[w].root
       THEN /\ io = "ok"
            /\ commitReturn(w, CommitRes(<<>>, <<>>, file.master, "", TRUE))
            /\ UNCHANGED <<file, pages, kv, hist>>
       ELSE \E freed \in Perms(freedSet(tx[w])) :
                /\ InBounds(writePages(tx[w], freed).t)
                /\ IF io = "ok"
                   THEN /\ pages' = writePages(tx[w], freed).pages
                        /\ file' = [file EXCEPT !.npages =
                                        extendFile(@, writePages(tx[w], freed).npages)]
                        /\ tx' = [tx EXCEPT ![w] = writePages(tx[w], freed).t]
                        /\ commitGoesOn("written",
                                        CommitRes(<<"writePages">>,
                                                  writePages(tx[w], freed).t.updates,
                                                  file.master, "", FALSE))
                        /\ UNCHANGED <<kv, hist>>
                   ELSE /\ kv' = rollbackTX(kv, writePages(tx[w], freed).t)
                        /\ commitReturn(w, CommitRes(<<>>, tx[w].updates, file.master,
                                                     "extend", TRUE))
                        /\ UNCHANGED <<file, pages, hist>>

\* the fsync that is the barrier
commitSync(w, io) ==
    /\ proc = "running" /\ wpc[w] = "active" /\ db.pc = "written"
    /\ commitIO(io)
    /\ IF io = "ok"
       THEN /\ commitGoesOn("synced", [res EXCEPT !.log = Append(@, "fsync")])
            /\ UNCHANGED <<file, pages, kv, tx, hist>>
       ELSE /\ kv' = rollbackTX(kv, tx[w])
            /\ commitReturn(w, [res EXCEPT !.err = "fsync", !.done = TRUE])
            /\ UNCHANGED <<file, pages, hist>>

\* commitStore that does not wait for the barrier
commitStore_NoBarrier(w, io) ==
    /\ proc = "running" /\ wpc[w] = "active" /\ db.pc = "written"
    /\ commitIO(io)
    /\ kv' = Published(kv, tx[w])
    /\ hist' = Append(hist, TxView(tx[w]))
    /\ UNCHANGED pages
    /\ IF io = "ok"
       THEN /\ file' = [file EXCEPT !.master = masterStore(kv', @)]
            /\ commitGoesOn("stored", [res EXCEPT !.log = Append(@, "masterStore")])
            /\ UNCHANGED tx
       ELSE /\ commitReturn(w, [res EXCEPT !.err = "pwrite", !.done = TRUE])
            /\ UNCHANGED file

\* the transaction becomes visible and masterStore writes the master page
commitStore(w, io) ==
    /\ proc = "running" /\ wpc[w] = "active" /\ db.pc = "synced"
    /\ commitIO(io)
    /\ kv' = Published(kv, tx[w])
    /\ hist' = Append(hist, TxView(tx[w]))
    /\ UNCHANGED pages
    /\ IF io = "ok"
       THEN /\ file' = [file EXCEPT !.master = masterStore(kv', @)]
            /\ commitGoesOn("stored", [res EXCEPT !.log = Append(@, "masterStore")])
            /\ UNCHANGED tx
       ELSE /\ commitReturn(w, [res EXCEPT !.err = "pwrite", !.done = TRUE])
            /\ UNCHANGED file

\* the fsync after the master page, and the return
commitSync2(w, io) ==
    /\ proc = "running" /\ wpc[w] = "active" /\ db.pc = "stored"
    /\ commitIO(io)
    /\ commitReturn(w, IF io = "ok"
                       THEN [res EXCEPT !.log = Append(@, "fsync"), !.done = TRUE]
                       ELSE [res EXCEPT !.err = "fsync", !.done = TRUE])
    /\ UNCHANGED <<file, pages, kv, hist>>

\* ------------------------------------------------ catalog initialisation
\* the definitions that initializeInternalTables gives to TableNew
InternalTables ==
    [i \in 1..Len(BootNames) |->
        CHOOSE d \in {[Name |-> t.Name, Cols |-> t.Cols, Types |-> t.Types,
                       PKeys |-> t.PKeys, Indexes |-> t.Indexes] :
                          t \in {TDEF_META, TDEF_TABLE}} : d.Name = BootNames[i]]

\* what TableNew of the catalog table at hand has returned
BootRes ==
    IF res.op = "TableNew" /\ res.table = BootNames[db.boot + 1] /\ res.done
    THEN res.err ELSE "pending"

\* the loop of initializeInternalTables goes on to the next table
BootNext(ops) ==
    /\ db' = [db EXCEPT !.boot = @ + 1, !.spent.tx = @ + 1, !.spent.ops = @ + ops]
    /\ UNCHANGED res

\* initializeInternalTables, run by StartDB after KV.Open: for each catalog
\* table Begin, TableNew, and then Commit, or Abort when the table is there
initializeInternalTables(w) ==
    /\ Booting
    /\ \/ Begin(w)
       \/ BootRes = "pending" /\ TableNew(w, InternalTables[db.boot + 1])
       \/ TableNewDef(w)
       \/ /\ db.pc = "idle" /\ BootRes = ""
          /\ CommitTX(w, "ok") /\ BootNext(2)
       \/ /\ db.pc = "idle" /\ BootRes = "table already exists"
          /\ AbortTX(w) /\ BootNext(0)

\* StartDB has run initializeInternalTables to its end
Booted == ~Booting

\* ------------------------------------------------------- specifications
EmptyFile == [npages |-> 0, rem |-> 0, master |-> ZeroMaster]

\* the state after construction, given the file and its pages
InitFile(f, pg, r0, d0, rs) ==
    /\ proc = "closed"
    /\ file = f
    /\ pages = pg
    /\ kv = KV0
    /\ writer = "none"
    /\ wpc = [w \in Writers |-> "idle"]
    /\ tx = [w \in Writers |-> KVTX0]
    /\ reader = [r \in rs |-> KVReader0]
    /\ hist = <<>>
    /\ lastOp = "New"
    /\ atBegin = NoBegin
    /\ lastPop = NoPop
    /\ freedAt = [p \in PageNos |-> -1]
    /\ durable = {}
    /\ lastMeta = [meta |-> NoMeta, master |-> ZeroMaster]
    /\ expect = [k \in Keys |-> -1]
    /\ used = [tx |-> 0, ops |-> 0, fail |-> 0, crash |-> 0]
    /\ db = d0
    /\ res = r0
    /\ rows = [Rows0 EXCEPT !.snap = [r \in rs |-> {}]]

\* the state after construction, given a file without pages in use
InitOf(f, r0, d0, rs) == InitFile(f, [p \in PageNos |-> ZeroPage], r0, d0, rs)

\* the same with the one reading thread
InitFull(f, r0, d0) == InitOf(f, r0, d0, Readers)

\* a KV without a DB on top
InitAll(f, r0) == InitFull(f, r0, NoDB)

\* the state after construction, given the file
InitWith(f) == InitAll(f, NoRes)

\* a new KV on a file that does not exist yet
Init == InitWith(EmptyFile)

\* a new DB on a file that does not exist yet
InitDB == InitFull(EmptyFile, NoRes, DB0)

Next ==
    \/ Open
    \/ \E w \in Writers : Begin(w)
    \/ \E w \in Writers, k \in TxKeys, v \in TxVals : Set(w, k, v)
    \/ \E w \in Writers, k \in TxKeys : KVDelete(w, k)
    \/ \E w \in Writers : Abort(w)
    \/ \E w \in Writers, io \in CommitIO : Commit(w, io)
    \/ \E r \in Readers : BeginRead(r)
    \/ \E r \in Readers : EndRead(r)
    \/ Crash

Spec == Init /\ [][Next]_vars

\* two threads that run write transactions, with no reader
NextLock ==
    \/ Open
    \/ \E w \in Writers : used.tx < MaxLockTx /\ Begin(w)
    \/ \E w \in Writers, k \in TxKeys, v \in TxVals :
           used.ops < MaxLockOps /\ Set(w, k, v)
    \/ \E w \in Writers : Abort(w)
    \/ \E w \in Writers, io \in CommitIO : Commit(w, io)

SpecLock == Init /\ [][NextLock]_vars

\* the tree of a transaction under BTree.Insert alone
NextTree ==
    \/ Open
    \/ \E w \in Writers : Begin(w)
    \/ \E w \in Writers, k \in Keys, v \in Vals : Update(w, k, v)
    \/ \E w \in Writers, k \in Keys \cup {0, LongKey}, v \in Vals \cup {LongVal} :
           BTreeInsert(w, k, v)
    \/ \E w \in Writers, k \in Keys : BTreeDelete(w, k)
    \/ \E w \in Writers : Traverse(w)
    \/ \E w \in Writers : Abort(w)

SpecTree == Init /\ [][NextTree]_vars

\* BTree.Insert with keys and values of every size, the empty key and the
\* ones past the limits included
NextSizes ==
    \/ Open
    \/ \E w \in Writers : used.tx < MaxSizeTx /\ Begin(w)
    \/ \E w \in Writers, k \in Keys \cup {0, LongKey}, v \in Vals \cup {LongVal} :
           used.ops < MaxSizeOps /\ BTreeInsert(w, k, v)
    \/ \E w \in Writers : Abort(w)

SpecSizes == Init /\ [][NextSizes]_vars

\* the rows given to DB.Set, in the order of the schema
UserRows == {Rec(UsersCols, <<I64(i), Str(n)>>) : i \in Ids, n \in Strs}

ItemRows == {Rec(ItemsCols, <<I64(i), Str(c), I64(0)>>) : i \in Ids, c \in Strs}

SetArgs ==
    {[table |-> "users", rec |-> r] : r \in UserRows}
        \cup {[table |-> "items", rec |-> r] : r \in ItemRows}

\* records of the table users: rows in the order of the schema and in
\* another order, a record with the types of its two columns exchanged, one
\* with a cell of another type, one without a column
UserRecs ==
    UserRows
        \cup {Rec(<<"name", "id">>, <<Str(n), I64(i)>>) : i \in Ids, n \in Strs}
        \cup {Rec(<<"name", "id">>, <<I64(0), Str(StrRank("a"))>>),
              Rec(UsersCols, <<I64(0), I64(1)>>),
              Rec(<<"id">>, <<I64(0)>>)}

KeyRecs == {Rec(<<"id">>, <<I64(i)>>) : i \in Ids}

Modes == {MODE_UPSERT, MODE_UPDATE_ONLY, MODE_INSERT_ONLY}

\* one thread that writes rows through the table interface
NextRows ==
    \/ Open
    \/ initializeInternalTables("w1")
    \/ Booted /\ Begin("w1")
    \/ \E def \in NewTables : Booted /\ TableNew("w1", def)
    \/ Booted /\ TableNewDef("w1")
    \/ \E a \in SetArgs, mode \in Modes : Booted /\ DBSet("w1", a.table, a.rec, mode)
    \/ Booted /\ IndexAdd("w1")
    \/ \E def \in NewTables, rec \in KeyRecs : Booted /\ DBDelete("w1", def.Name, rec)
    \/ Booted /\ db.pc = "idle" /\ Abort("w1")
    \/ Booted /\ db.pc = "idle" /\ Commit("w1", "ok")

SpecRows == InitDB /\ [][NextRows]_vars

\* one thread that gives records of every shape to DB.Set
NextTypes ==
    \/ Open
    \/ initializeInternalTables("w1")
    \/ Booted /\ used.tx < MaxTypesTx + db.spent.tx /\ Begin("w1")
    \/ Booted /\ TableNew("w1", UsersDef)
    \/ Booted /\ TableNewDef("w1")
    \/ \E rec \in UserRecs, mode \in Modes : Booted /\ DBSet("w1", "users", rec, mode)
    \/ Booted /\ db.pc = "idle" /\ Abort("w1")

SpecTypes == InitDB /\ [][NextTypes]_vars

\* one thread that writes rows, and the threads that read them; the process
\* may be stopped and started again on its file once the catalog exists, and
\* the write transactions of the rows begin after that
NextScan ==
    \/ Open
    \/ initializeInternalTables("w1")
    \/ Booted /\ used.crash = MaxCrash /\ Begin("w1")
    \/ \E def \in NewTables : Booted /\ TableNew("w1", def)
    \/ Booted /\ TableNewDef("w1")
    \/ \E rec \in UserRows : Booted /\ DBSet("w1", "users", rec, MODE_UPSERT)
    \/ \E rec \in KeyRecs : Booted /\ DBDelete("w1", "users", rec)
    \/ Booted /\ db.pc = "idle" /\ Commit("w1", "ok")
    \/ \E r \in Readers : Booted /\ db.pc = "idle" /\ BeginRead(r)
    \/ \E r \in Readers : Booted /\ db.pc = "idle" /\ EndRead(r)
    \/ \E r \in Readers, start \in KeyRecs, end \in KeyRecs :
           Booted /\ db.pc = "idle" /\ GetRange(r, "users", start, end)
    \/ Booted /\ db.pc = "idle" /\ getAllRecords("users")
    \/ Booted /\ db.pc = "idle" /\ Abort("w1")
    \/ Booted /\ used.tx = db.spent.tx /\ ~reader["r1"].active /\ Restart

SpecScan == InitDB /\ [][NextScan]_vars

\* the definitions given to TableNew: the two tables, and each of them with
\* one thing changed
DefsLike(def) ==
    {def}
        \cup {[def EXCEPT !.PKeys = k] : k \in 0..MaxPKeys}
        \cup {[def EXCEPT !.Types[2] = t] : t \in 0..MaxType}
        \cup {[def EXCEPT !.Name = ""], [def EXCEPT !.Cols = <<>>],
              [def EXCEPT !.Types = Tail(@)], [def EXCEPT !.Cols[2] = ""],
              [def EXCEPT !.Cols[2] = def.Cols[1]]}
        \cup {[def EXCEPT !.Indexes = <<ix>>] :
                  ix \in {<<"zip">>, <<def.Cols[1]>>, <<def.Cols[2]>>,
                          <<def.Cols[2], def.Cols[1]>>,
                          SubSeq(def.Cols, 2, Len(def.Cols))}}

DefInputs == DefsLike(UsersDef) \cup DefsLike(ItemsDef)

\* one thread that creates tables from definitions of every kind
NextDefs ==
    \/ Open
    \/ initializeInternalTables("w1")
    \/ Booted /\ Begin("w1")
    \/ \E def \in DefInputs : Booted /\ TableNew("w1", def)
    \/ Booted /\ TableNewDef("w1")
    \/ Booted /\ db.pc = "idle" /\ Commit("w1", "ok")

SpecDefs == InitDB /\ [][NextDefs]_vars

\* one thread that creates tables, the tables of the catalog among them,
\* in a process that is started again
NextCatalog ==
    \/ Open
    \/ initializeInternalTables("w1")
    \/ Booted /\ Begin("w1")
    \/ \E def \in NewTables : Booted /\ TableNew("w1", def)
    \/ \E i \in 1..Len(BootNames) : Booted /\ TableNew("w1", InternalTables[i])
    \/ Booted /\ TableNewDef("w1")
    \/ Booted /\ db.pc = "idle" /\ Abort("w1")
    \/ Booted /\ db.pc = "idle" /\ Commit("w1", "ok")
    \/ Booted /\ db.pc = "idle" /\ Restart

SpecCatalog == InitDB /\ [][NextCatalog]_vars

\* three reading threads that begin and end while one thread writes and
\* commits
ReaderThreads == {"r1", "r2", "r3"}

InitReaders == InitOf(EmptyFile, NoRes, NoDB, ReaderThreads)

NextReaders ==
    \/ Open
    \/ used.tx < MaxLockTx /\ Begin("w1")
    \/ \E k \in TxKeys, v \in TxVals : used.ops < MaxLockOps /\ Set("w1", k, v)
    \/ Commit("w1", "ok")
    \/ \E r \in ReaderThreads : BeginRead(r)
    \/ \E r \in ReaderThreads : EndRead(r)

SpecReaders == InitReaders /\ [][NextReaders]_vars

\* one thread that writes with and without a flush and commits, each I/O
\* call of the Commit a step of its own
NextBarrier ==
    \/ Open
    \/ db.pc = "idle" /\ used.tx < MaxLockTx /\ Begin("w1")
    \/ \E k \in TxKeys, v \in TxVals :
           db.pc = "idle" /\ used.ops < MaxLockOps /\ Update("w1", k, v)
    \/ \E k \in TxKeys, v \in TxVals :
           db.pc = "idle" /\ used.ops < MaxLockOps /\ Set("w1", k, v)
    \/ \E k \in TxKeys : db.pc = "idle" /\ used.ops < MaxLockOps /\ KVDelete("w1", k)
    \/ \E io \in CallIO : commitWrite("w1", io)
    \/ \E io \in CallIO : commitSync("w1", io)
    \/ \E io \in CallIO : commitStore("w1", io)
    \/ \E io \in CallIO : commitSync2("w1", io)

SpecBarrier == Init /\ [][NextBarrier]_vars

\* a database file that holds a tree of two levels: the root node and up to
\* MaxLeaves leaves, the first of which begins with the empty key
MaxLeaves == 3

\* the pairs of a leaf: the keys of S from k on in ascending order
RECURSIVE leafFrom(_, _, _)
leafFrom(S, k, val) ==
    IF k \notin Keys THEN <<>>
    ELSE (IF k \in S THEN <<KV(k, val[k], 0)>> ELSE <<>>) \o leafFrom(S, k + 1, val)

\* leaf i of the tree in which key k is stored in leaf cut[k]
leafOf(i, cut, val) ==
    TreeNode(BNODE_LEAF,
             (IF i = 1 THEN <<KV(0, 0, 0)>> ELSE <<>>)
                 \o leafFrom({k \in Keys : cut[k] = i}, 1, val))

\* the ways to store keys in n leaves: cut[k] = 0 for a key that is not
\* stored, no leaf is empty or larger than a page, and the keys of a leaf
\* are smaller than the keys of the next one
LeafCuts(n) ==
    {c \in [cut : [Keys -> 0..n], val : [Keys -> Vals]] :
        /\ \A k1, k2 \in Keys : (k1 < k2 /\ c.cut[k1] > 0 /\ c.cut[k2] > 0)
                                     => c.cut[k1] <= c.cut[k2]
        /\ \A k \in Keys : c.cut[k] = 0 => c.val[k] = 1
        /\ \A i \in 1..n : /\ nKeys(leafOf(i, c.cut, c.val)) > 0
                            /\ nbytes(leafOf(i, c.cut, c.val)) <= BTREE_PAGE_SIZE}

\* the pages of the tree: the leaves at 1..n, the root at n + 1
treeFile(n, c) ==
    [p \in PageNos |->
        IF p <= n THEN leafOf(p, c.cut, c.val)
        ELSE IF p = n + 1
        THEN TreeNode(BNODE_INODE,
                      [i \in 1..n |-> KV(leafOf(i, c.cut, c.val).kvs[1].key, 0, i)])
        ELSE ZeroPage]

InitMerge ==
    \E n \in 2..MaxLeaves : \E c \in LeafCuts(n) :
        InitFile([npages |-> n + 2, rem |-> 0,
                  master |-> [sig |-> "FiloDB", root |-> n + 1, used |-> n + 2,
                              head |-> 0, version |-> 0]],
                 treeFile(n, c), NoRes, NoDB, Readers)

\* one thread that deletes keys from the tree of such a file
NextMerge ==
    \/ Open
    \/ Begin("w1")
    \/ \E k \in Keys : BTreeDelete("w1", k)
    \/ Abort("w1")

SpecMerge == InitMerge /\ [][NextMerge]_vars

\* the comparison codes of a Scanner and the ranges given to DB.Scan
CmpCodes == {CMP_GE, CMP_GT, CMP_LT, CMP_LE}

ScanReqs == [Cmp1 : CmpCodes, Cmp2 : CmpCodes, Key1 : KeyRecs, Key2 : KeyRecs]

\* one transaction that writes rows and scans them with every pair of codes
NextCmp ==
    \/ Open
    \/ initializeInternalTables("w1")
    \/ Booted /\ used.tx < MaxTypesTx + db.spent.tx /\ Begin("w1")
    \/ Booted /\ TableNew("w1", UsersDef)
    \/ Booted /\ TableNewDef("w1")
    \/ \E rec \in UserRows : Booted /\ DBSet("w1", "users", rec, MODE_UPSERT)
    \/ \E req \in ScanReqs : Booted /\ DBScan("w1", "users", req)
    \/ Booted /\ db.pc = "idle" /\ Abort("w1")

SpecCmp == InitDB /\ [][NextCmp]_vars

\* a string of more than BTREE_MAX_VAL_SIZE bytes: encodeValues of it alone
\* is the value LongVal
LongStr == (LongVal - 1) \div 2

\* rows of the table users whose encoded value is longer than a node takes
LongRows == {Rec(UsersCols, <<I64(i), Str(LongStr)>>) : i \in Ids}

\* one thread that writes rows of every size and commits them
NextStored ==
    \/ Open
    \/ initializeInternalTables("w1")
    \/ Booted /\ used.tx < MaxTypesTx + db.spent.tx /\ Begin("w1")
    \/ Booted /\ TableNew("w1", UsersDef)
    \/ Booted /\ TableNewDef("w1")
    \/ \E rec \in UserRows \cup LongRows, mode \in Modes :
           Booted /\ DBSet("w1", "users", rec, mode)
    \/ Booted /\ db.pc = "idle" /\ Commit("w1", "ok")
    \/ Booted /\ db.pc = "idle" /\ Abort("w1")

SpecStored == InitDB /\ [][NextStored]_vars

\* a thread that writes through the KV and uses its KVTX again, or a new
\* one, for the next transaction; the process does not stop
NextAppend ==
    \/ Open
    \/ used.tx < MaxAppendTx /\ Begin("w1")
    \/ used.tx < MaxAppendTx /\ BeginReused("w1")
    \/ \E k \in TxKeys, v \in TxVals : used.ops < MaxAppendOps /\ Set("w1", k, v)
    \/ \E k \in TxKeys : used.ops < MaxAppendOps /\ KVDelete("w1", k)
    \/ AbortKept("w1")
    \/ \E io \in CommitIO \ {"stop"} : CommitKept("w1", io)

SpecAppend == Init /\ [][NextAppend]_vars

\* ------------------------------------------------------------ worker pool
\* a step of the pool: nothing of the KV and of the tables changes
PoolStep(pool) ==
    /\ db' = [db EXCEPT !.pool = pool]
    /\ UNCHANGED <<proc, file, pages, kv, writer, wpc, tx, reader, hist, lastOp,
                   atBegin, lastPop, freedAt, durable, lastMeta, expect, used,
                   res, rows>>

Ready(pool) == {g \in Slots : pool.workers[g].pc = "ready"}

\* a send on workerQueue that the goroutine g receives
Sent(pool, g, task) ==
    [pool EXCEPT !.workers[g] = [pc |-> "taken", task |-> task]]

\* go worker(task, ...) and workerCount++
Spawned(pool, task) ==
    [pool EXCEPT !.workers[CHOOSE g \in Slots : pool.workers[g].pc = "none"]
                     = [pc |-> "taken", task |-> task],
                 !.workerCount = @ + 1]

\* waitingQueue.PushBack(task)
Pushed(pool, task) ==
    [pool EXCEPT !.waitingQueue = Append(@, task), !.waited = @ \cup {task}]

\* dispatch has received the task from taskQueue
Received(pool, task) ==
    [pool EXCEPT !.task[task] = "held", !.submitted = Append(@, task)]

\* the inner select of dispatch: a worker that waits takes the task, else a
\* new worker is started if there are fewer than maxWorkers, else the task
\* is put on the waiting queue
Placed(pool, task) ==
    IF Ready(pool) # {} THEN {Sent(pool, g, task) : g \in Ready(pool)}
    ELSE IF pool.workerCount < MaxWorkers THEN {Spawned(pool, task)}
    ELSE {Pushed(pool, task)}

\* WorkerPool.Submit: the caller waits until dispatch receives the task; one
\* goroutine submits the tasks, one after the other
Submit(task) ==
    /\ db.pool.task[task] = "new"
    /\ \A u \in 1..(task - 1) : db.pool.task[u] \notin {"new", "sending"}
    /\ PoolStep([db.pool EXCEPT !.task[task] = "sending"])

\* dispatch, case task := <-p.taskQueue
dispatchTask(task) ==
    /\ db.pool.waitingQueue = <<>>
    /\ db.pool.task[task] = "sending"
    /\ \E pool \in Placed(Received(db.pool, task), task) :
           PoolStep([pool EXCEPT !.idle = FALSE])

\* killIdleWorker: nil for a worker that waits, if there is one
killIdleWorker(pool) ==
    IF Ready(pool) = {} THEN {pool}
    ELSE {[pool EXCEPT !.workers[g] = [pc |-> "none", task |-> 0],
                       !.workerCount = @ - 1] : g \in Ready(pool)}

\* dispatch, case <-timeout.C
dispatchTimeout ==
    /\ db.pool.waitingQueue = <<>>
    /\ \E pool \in (IF db.pool.idle /\ db.pool.workerCount > 0
                     THEN killIdleWorker(db.pool) ELSE {db.pool}) :
           PoolStep([pool EXCEPT !.idle = TRUE])

\* processWaitingQueue, case task := <-p.taskQueue
processWaitingTask(task) ==
    /\ db.pool.waitingQueue # <<>>
    /\ db.pool.task[task] = "sending"
    /\ PoolStep(Pushed(Received(db.pool, task), task))

\* processWaitingQueue that gives the back of the waiting queue to the worker
processWaitingQueue_Back ==
    /\ db.pool.waitingQueue # <<>>
    /\ \E g \in Ready(db.pool) :
           PoolStep([Sent(db.pool, g, db.pool.waitingQueue[Len(db.pool.waitingQueue)])
                        EXCEPT !.waitingQueue = SubSeq(@, 1, Len(@) - 1),
                               !.handed = Append(@, db.pool.waitingQueue[
                                                        Len(db.pool.waitingQueue)])])

\* processWaitingQueue, case p.workerQueue <- front: a worker that waits
\* takes the front of the waiting queue
processWaitingQueue ==
    /\ db.pool.waitingQueue # <<>>
    /\ \E g \in Ready(db.pool) :
           PoolStep([Sent(db.pool, g, Head(db.pool.waitingQueue))
                        EXCEPT !.waitingQueue = Tail(@),
                               !.handed = Append(@, Head(db.pool.waitingQueue))])

\* worker: task()
workerCall(g) ==
    /\ db.pool.workers[g].pc = "taken"
    /\ PoolStep([db.pool EXCEPT !.workers[g].pc = "running",
                                !.started = Append(@, db.pool.workers[g].task),
                                !.runs[db.pool.workers[g].task] = @ + 1])

\* the task returns
workerReturn(g) ==
    /\ db.pool.workers[g].pc = "running"
    /\ PoolStep([db.pool EXCEPT !.workers[g] = [pc |-> "free", task |-> 0],
                                !.task[db.pool.workers[g].task] = "done"])

\* worker: task = <-workerQueue
workerWait(g) ==
    /\ db.pool.workers[g].pc = "free"
    /\ PoolStep([db.pool EXCEPT !.workers[g].pc = "ready"])

worker(g) == workerCall(g) \/ workerReturn(g) \/ workerWait(g)

\* the pool of a DB: Stop is not called, and every task returns
NextPool ==
    \/ \E task \in Tasks : Submit(task)
    \/ \E task \in Tasks : dispatchTask(task)
    \/ dispatchTimeout
    \/ \E task \in Tasks : processWaitingTask(task)
    \/ processWaitingQueue
    \/ \E g \in Slots : workerCall(g)
    \/ \E g \in Slots : workerReturn(g)
    \/ \E g \in Slots : workerWait(g)

\* every goroutine that can take a step takes one: the workers, and
\* dispatch on a task that is sent to it and on a worker that waits for the
\* front of the waiting queue (a select with several ready cases takes each
\* of them sooner or later)
SpecPool ==
    /\ InitDB /\ [][NextPool]_vars
    /\ \A g \in Slots : WF_vars(worker(g))
    /\ WF_vars(\E task \in Tasks : dispatchTask(task) \/ processWaitingTask(task))
    /\ WF_vars(processWaitingQueue)

\* a call of a function of the records: nothing but its answer changes
Answered(r) ==
    /\ res' = r
    /\ UNCHANGED <<proc, file, pages, kv, writer, wpc, tx, reader, hist, lastOp,
                   atBegin, lastPop, freedAt, durable, lastMeta, expect, used,
                   db, rows>>

\* the lists of columns of maxLen columns at most, without a repetition
RECURSIVE ColLists(_, _)
ColLists(cols, maxLen) ==
    IF maxLen = 0 THEN {<<>>}
    ELSE ColLists(cols, maxLen - 1)
             \cup {Append(l, c) : l \in {x \in ColLists(cols, maxLen - 1) :
                                            Len(x) = maxLen - 1},
                                  c \in cols}

NoRepeat(l) == \A i, j \in 1..Len(l) : l[i] = l[j] => i = j

\* the tables findIndex is given: four columns, the first the primary key,
\* and the indexes as tableDefCheck leaves them, ending with the primary key
\* and shorter than the columns
IndexCols == <<"id", "a", "b", "c">>

IndexLists ==
    {Append(l, "id") : l \in {x \in ColLists({"a", "b"}, 2) : NoRepeat(x) /\ x # <<>>}}

RECURSIVE IndexSeqs(_)
IndexSeqs(n) ==
    IF n = 0 THEN {<<>>}
    ELSE IndexSeqs(n - 1)
             \cup {Append(s, l) : s \in {x \in IndexSeqs(n - 1) : Len(x) = n - 1},
                                  l \in IndexLists}

IndexTables ==
    {TableDef("t", IndexCols, <<TYPE_INT64, TYPE_INT64, TYPE_INT64, TYPE_INT64>>, 1, ix, 3) :
        ix \in IndexSeqs(MaxIndexes)}

QueryCols == {l \in ColLists({"id", "a", "b", "c"}, MaxQueryCols) : NoRepeat(l)}

InitIndex ==
    \E tdef \in IndexTables, keys \in QueryCols :
        InitAll(EmptyFile, [op |-> "query", tdef |-> tdef, keys |-> keys])

\* dbScan of a range over the columns, up to the choice of the index
FindIndex ==
    /\ res.op = "query"
    /\ Answered([op |-> "findIndex", tdef |-> res.tdef, keys |-> res.keys,
                 out |-> findIndex(res.tdef, res.keys),
                 scan |-> dbScan(res.tdef,
                                 rangeReq(Rec(res.keys, [i \in 1..Len(res.keys) |-> I64(0)]),
                                          Rec(res.keys, [i \in 1..Len(res.keys) |-> I64(0)])),
                                 KVTX0)])

NextIndex == FindIndex

SpecIndex == InitIndex /\ [][NextIndex]_vars

\* the cells encodeValues is given: numbers with every top bit and low
\* byte, strings of every byte of a set that holds the bytes escapeString
\* and unEscapeString look for
CodecBytes == {0, 1, 2, 65, 66, 254, 255}

RECURSIVE ByteStrings(_)
ByteStrings(n) ==
    IF n = 0 THEN {<<>>}
    ELSE ByteStrings(n - 1)
             \cup {Append(s, b) : s \in {x \in ByteStrings(n - 1) : Len(x) = n - 1},
                                  b \in CodecBytes}

CodecCells ==
    {[Cell0(TYPE_INT64) EXCEPT !.I64 = <<hi, 0, 0, 0, 0, 0, 0, lo>>] :
        hi \in {0, 127, 128, 255}, lo \in {0, 1, 128, 255}}
        \cup {[Cell0(TYPE_BYTES) EXCEPT !.Str = s] : s \in ByteStrings(MaxStrLen)}

InitCodec == \E v \in CodecCells : InitAll(EmptyFile, [op |-> "cell", v |-> v])

\* decodeValues of encodeValues of the cell, after encodeValues answered enc
roundTrip(v, enc) ==
    [op |-> "roundTrip", v |-> v, enc |-> enc.out,
     panic |-> enc.panic \/ decodeValue(enc.out, v.Type).panic,
     dec |-> IF enc.panic THEN Cell0(v.Type) ELSE decodeValue(enc.out, v.Type).v]

RoundTrip ==
    /\ res.op = "cell"
    /\ Answered(roundTrip(res.v, encodeValue(res.v)))

NextCodec == RoundTrip

SpecCodec == InitCodec /\ [][NextCodec]_vars

\* two key cells of one type
InitOrder ==
    \E a \in CodecCells, b \in CodecCells :
        a.Type = b.Type /\ InitAll(EmptyFile, [op |-> "pair", a |-> a, b |-> b])

\* encodeValues of each of the two cells, as encodeKey calls it
encodePair(a, b, ea, eb) ==
    [op |-> "encoded", a |-> a, b |-> b, panic |-> ea.panic \/ eb.panic,
     ea |-> ea.out, eb |-> eb.out]

EncodePair ==
    /\ res.op = "pair"
    /\ Answered(encodePair(res.a, res.b, encodeValue(res.a), encodeValue(res.b)))

NextOrder == EncodePair

SpecOrder == InitOrder /\ [][NextOrder]_vars

\* the files Open can be given: empty, shorter than a page, whole pages,
\* whole pages and a part of one; with any master page
MasterPages ==
    [sig : {"FiloDB", "other"}, root : 0..MaxField, used : 0..(MaxFilePages + 1),
     head : 0..1, version : {0}]

OpenFiles ==
    {f \in [npages : 0..MaxFilePages, rem : {0, 1}, master : MasterPages \cup {ZeroMaster}] :
        IF f.npages = 0 THEN f.master = ZeroMaster ELSE f.master # ZeroMaster}

InitOpen == \E f \in OpenFiles : InitWith(f)

NextOpen == Open

SpecOpen == InitOpen /\ [][NextOpen]_vars

\* ---------------------------------------------------------------- claims
\* C1: reader isolation. Every lookup of a reader between BeginRead and
\* EndRead returns the key/value state that was committed at the reader's
\* snapshot version, whatever the write transactions do in between.
C1_ReaderIsolation ==
    \A r \in Readers :
        (proc = "running" /\ reader[r].active)
            => View(reader[r].root) = hist[reader[r].version + 1]

\* C2: free-list reuse safety. Pop never hands out a page that was freed
\* at writer version F while a registered reader has a snapshot version
\* <= F.
C2_ReuseSafety ==
    \A i \in 1..Len(lastPop.ptrs) :
        lastPop.at[i] >= 0 => \A v \in lastPop.readers : v > lastPop.at[i]

\* C3: Abort restores the state before the transaction. After Begin, Sets
\* and Deletes, and Abort, the published root, version and free-list
\* metadata are those before Begin, and the lookups of a reader that
\* starts afterwards return what they returned before Begin.
C3_AbortRestores ==
    lastOp = "Abort"
        => /\ kv.root = atBegin.root
           /\ kv.version = atBegin.version
           /\ kv.free = atBegin.free
           /\ View(kv.root) = atBegin.view

\* C4: crash consistency. After the process stopped during a write
\* transaction or inside Commit, the file reopens to the state of the
\* last successful commit, or to the state of the new commit when the
\* master page had been written.
C4_CrashConsistency ==
    (lastOp = "Open" /\ used.crash > 0) => View(kv.root) \in durable

\* C5: single writer. At most one write transaction is between Begin and
\* its Commit/Abort at any time, and it is the one that holds the lock.
C5_SingleWriter ==
    /\ Cardinality({w \in Writers : wpc[w] # "idle"}) <= 1
    /\ \A w \in Writers : wpc[w] # "idle" => writer = w

C5_Witness ==
    /\ writer = "w2" /\ wpc["w2"] = "active" /\ wpc["w1"] = "idle"
    /\ used.tx >= 2 /\ lastOp = "Set"

\* C6: a failed commit publishes nothing. When the write of the dirty pages
\* or the first fsync fails in Commit, the published root, version and
\* free-list metadata are those before Begin, the readers that start
\* afterwards see the committed state, and the writer lock is released.
C6_FailedCommit ==
    lastOp = "CommitFailed"
        => /\ kv.root = atBegin.root
           /\ kv.version = atBegin.version
           /\ kv.free = atBegin.free
           /\ View(kv.root) = atBegin.view
           /\ writer = "none"

\* C7: version monotonicity. While the process runs, the published version
\* never decreases, every Commit that publishes a changed root increases
\* it by exactly one, and a reader that begins after a commit observes a
\* larger version than the readers that began before.
C7_VersionMonotonic ==
    [][(proc = "running" /\ proc' = "running")
          => /\ kv'.version >= kv.version
             /\ kv'.root # kv.root => kv'.version = kv.version + 1
             /\ \A r \in Readers :
                    (~reader[r].active /\ reader'[r].active)
                        => reader'[r].version = kv.version]_vars

\* C8: master-page round trip. The master page a successful commit writes
\* records the root, the page count, the free-list head and the version,
\* and a later Open restores the four of them.
C8_MasterRoundTrip ==
    /\ lastOp = "CommitOk"
          => /\ file.master.root = kv.root
             /\ file.master.used = kv.flushed
             /\ file.master.head = kv.free.head
             /\ file.master.version = kv.version
    /\ (lastOp = "Open" /\ lastMeta.meta.version >= 0 /\ file.master = lastMeta.master)
          => MetaOf(kv) = lastMeta.meta

\* the file Open was given is not empty
NonEmpty(f) == f.npages > 0 \/ f.rem > 0

OpenFailed(err) == proc = "failed" /\ lastOp = err /\ kv = KV0

\* C9 as stated: Open on a non-empty file fails with "bad signature" when
\* the signature differs and with "bad master page" when pagesUsed < 1 or
\* root >= pagesUsed, exposing no state; Open on an empty file succeeds
\* with pagesUsed = 1, root = 0, head = 0 and version = 0.
C9_OpenValidation_Original ==
    proc # "closed"
        => /\ (NonEmpty(file) /\ file.master.sig # "FiloDB")
                => OpenFailed("bad signature")
           /\ (NonEmpty(file) /\ file.master.sig = "FiloDB"
                  /\ (file.master.used < 1 \/ file.master.root >= file.master.used))
                => OpenFailed("bad master page")
           /\ ~NonEmpty(file)
                => /\ proc = "running"
                   /\ MetaOf(kv) = [root |-> 0, used |-> 1, head |-> 0, version |-> 0]

\* C9: Open validation, for the files whose size is a multiple of the page
\* size. Open on such a non-empty file fails with "bad signature" when the
\* signature differs and with "bad master page" when pagesUsed < 1 or
\* root >= pagesUsed, exposing no state; Open on an empty file succeeds
\* with pagesUsed = 1, root = 0, head = 0 and version = 0.
C9_OpenValidation ==
    proc # "closed"
        => /\ (NonEmpty(file) /\ file.rem = 0 /\ file.master.sig # "FiloDB")
                => OpenFailed("bad signature")
           /\ (NonEmpty(file) /\ file.rem = 0 /\ file.master.sig = "FiloDB"
                  /\ (file.master.used < 1 \/ file.master.root >= file.master.used))
                => OpenFailed("bad master page")
           /\ ~NonEmpty(file)
                => /\ proc = "running"
                   /\ MetaOf(kv) = [root |-> 0, used |-> 1, head |-> 0, version |-> 0]

C9_Witness ==
    /\ OpenFailed("bad master page")
    /\ file.rem = 0 /\ file.master.sig = "FiloDB" /\ file.master.used >= 1
    /\ file.master.root >= file.master.used

\* C10: lookup after inserts. After any sequence of BTree.Insert calls with
\* valid sizes, those that make a node exceed one page included, every
\* call has returned and Get returns the value of the last Insert of every
\* inserted key and not-found for the keys never inserted.
C10_GetAfterInsert ==
    /\ lastOp # "UpdatePanic"
    /\ \A w \in Writers :
           (proc = "running" /\ wpc[w] = "active") => TxView(tx[w]) = expect

\* C11: in-order traversal. After any sequence of inserts and deletes,
\* seeking to the smallest key and calling Next while the iterator is valid
\* visits exactly the surviving keys, each once, in ascending order, and
\* then the iterator is not valid any more.
C11_InOrderTraversal ==
    res.op = "Traverse"
        => /\ ~res.scan.panic
           /\ res.scan.keys = res.live
           /\ ~res.scan.more

\* C12: size-limit errors. BTree.Insert with an empty key, a key longer
\* than 1000 bytes or a value longer than 3000 bytes returns an error and
\* leaves the root and all the stored pairs of the tree as they were.
C12_SizeLimitErrors ==
    \A w \in Writers :
        (res.op = "Insert" /\ lastOp = "Insert" /\ wpc[w] = "active"
            /\ (KeyLen(res.key) = 0 \/ KeyLen(res.key) > BTREE_MAX_KEY_SIZE
                   \/ ValLen(res.val) > BTREE_MAX_VAL_SIZE))
            => /\ res.err # ""
               /\ tx[w].root = res.root
               /\ TxView(tx[w]) = res.view

C12_Witness ==
    /\ res.op = "Insert" /\ lastOp = "Insert" /\ res.err # ""
    /\ res.val = LongVal /\ res.key \in Keys /\ res.root # 0

\* the table definition that the last call of DB.Set or DB.Delete used
ResTdefs == {d \in db.tables : d.Name = res.table}

\* the last call was a write of a row that went through, and the
\* transaction is as the call left it
RowWritten ==
    /\ res.op = "Set" /\ res.err = ""
    /\ lastOp \in {"Set", "SetPanic", "IndexPanic"}

\* the keys of the pairs of a key space
KeySpace(view, prefix) == {k \in DBKeys : HasPrefix(k, prefix) /\ view[k] # -1}

\* the entries an index must hold for the rows of the history
IndexEntries(d, set) ==
    {indexKey(d, 1, Rec(d.Cols, x.vals)) : x \in {y \in set : y.table = d.Name}}

\* C13: after an insert, update, upsert or delete that went through on a
\* table with a secondary index, the call has returned, and the key space of
\* the index holds one entry prefix || encode(index columns || primary key)
\* with an empty value for every live row of the table, and nothing else.
C13_IndexConsistency ==
    (RowWritten /\ res.indexed)
        => /\ ~res.panic
           /\ res.done =>
                 \A d \in ResTdefs :
                     /\ KeySpace(res.after, d.IndexPrefix[1]) = IndexEntries(d, rows.tx)
                     /\ \A k \in IndexEntries(d, rows.tx) : res.after[k] = 0

\* the key of the row that the last call of DB.Set names
ResKey(d) == encodeKey(d.Prefix, <<RecGet(res.rec, d.Cols[1])>>)

\* the value of the row that the last call of DB.Set gives
ResVal(d) == encodeValues(SubSeq(checkRecord(d, res.rec, Len(d.Cols)).vals, 2, Len(d.Cols)))

\* C14: DB.Set in insert-only mode on a key that is present fails with
\* "record already exists", in update-only mode on a key that is absent it
\* fails with "record not found", and both leave the stored rows as they
\* were; in upsert mode the row is always written; after a Set that went
\* through, a get of that key returns the new row.
C14_ExistencePolicy ==
    (res.op = "Set" /\ res.mode >= 0)
        => \A d \in ResTdefs :
               /\ (res.mode = MODE_INSERT_ONLY /\ res.before[ResKey(d)] # -1)
                     => (res.err = "record already exists" /\ res.after = res.before)
               /\ (res.mode = MODE_UPDATE_ONLY /\ res.before[ResKey(d)] = -1)
                     => (res.err = "record not found" /\ res.after = res.before)
               /\ res.mode = MODE_UPSERT
                     => (res.err = "" /\ ~res.panic /\ res.after[ResKey(d)] = ResVal(d))
               /\ (res.err = "" /\ (res.done \/ res.panic))
                     => /\ ~res.panic
                        /\ res.got.ok
                        /\ res.got.rec = Rec(d.Cols, checkRecord(d, res.rec, Len(d.Cols)).vals)

\* a cell of the record has another type than the column it names
Mistyped(d, rec) ==
    \E i \in 1..Len(rec.Cols) :
        ColIndex(d, rec.Cols[i]) # 0 /\ rec.Vals[i].Type # TypeOf(d, rec.Cols[i])

\* the record names every column of the table
Complete(d, rec) == \A i \in 1..Len(d.Cols) : indexOf(rec.Cols, d.Cols[i]) # 0

\* C15: Insert, Update and Upsert reject with "invalid type", and write
\* nothing, a record in which the cell of some named column has another type
\* than the column; they do not reject for its types a complete record in
\* which every cell has the type of its column, in whatever order the record
\* lists the columns.
C15_TypeValidation ==
    (res.op = "Set" /\ res.mode >= 0)
        => \A d \in ResTdefs :
               /\ (Complete(d, res.rec) /\ Mistyped(d, res.rec))
                     => (res.err = "invalid type" /\ res.after = res.before)
               /\ (Complete(d, res.rec) /\ ~Mistyped(d, res.rec))
                     => res.err # "invalid type"

\* the rows of a sequence whose primary key lies between two keys
InRange(seq, start, end) ==
    SelectSeq(seq, LAMBDA v : /\ Digit(v[1]) >= Digit(start.Vals[1])
                              /\ Digit(v[1]) <= Digit(end.Vals[1]))

\* C16: GetRange(table, start, end) returns the rows committed when the
\* reader began whose key lies in the closed interval, each once, in
\* ascending order of the key.
C16_RangeScan ==
    (res.op = "GetRange" /\ res.found)
        => /\ ~res.panic
           /\ Len(res.snap) < maxResults
                 => res.rows = InRange(res.snap, res.start, res.end)

\* a reader that began after two rows were committed asks for one of them
C16_Witness ==
    /\ res.op = "GetRange" /\ res.found /\ ~res.panic
    /\ Len(res.snap) = 2 /\ Len(res.rows) = 1 /\ res.start = res.end

\* C17: the full scan of a table ends and returns every committed row of
\* the table once, in ascending order of the primary key, and no row of
\* another table.
C17_FullTableScan ==
    (res.op = "Scan" /\ res.found)
        => /\ ~res.panic
           /\ res.err = ""
           /\ res.rows = res.snap

\* the scan of a table of two committed rows, behind the rows of the catalog
C17_Witness ==
    /\ res.op = "Scan" /\ res.found /\ ~res.panic
    /\ Len(res.snap) = 2 /\ Len(res.rows) = 2

\* the first n elements of a sequence
FirstN(seq, n) == SubSeq(seq, 1, Min(n, Len(seq)))

\* C18: GetRange never returns more than 500 rows; with 500 rows or more
\* in range it returns the first 500 in the order of the key and the error
\* "reached maximum result limit"; with fewer it returns all of them and no
\* error.
C18_RangeCap ==
    (res.op = "GetRange" /\ res.found /\ ~res.panic)
        => /\ Len(res.rows) <= maxResults
           /\ IF Len(InRange(res.snap, res.start, res.end)) >= maxResults
              THEN /\ res.err = "reached maximum result limit"
                   /\ res.rows = FirstN(InRange(res.snap, res.start, res.end), maxResults)
              ELSE /\ res.err = ""
                   /\ \A i \in 1..Len(res.snap) :
                          (\E j \in 1..Len(InRange(res.snap, res.start, res.end)) :
                               InRange(res.snap, res.start, res.end)[j] = res.snap[i])
                              => \E j \in 1..Len(res.rows) : res.rows[j] = res.snap[i]

\* the list of columns begins with the columns
Begins(list, keys) == Len(keys) <= Len(list) /\ SubSeq(list, 1, Len(keys)) = keys

\* the indexes of the table (counted from 0) that begin with the columns
Matching(tdef, keys) ==
    {i \in 0..(Len(tdef.Indexes) - 1) : Begins(tdef.Indexes[i + 1], keys)}

\* C19: findIndex chooses the primary key when the query columns are a
\* prefix of the primary key columns; otherwise an index that begins with
\* the columns and is no longer than any other that does; when there is
\* none it fails with "no index found", and dbScan returns the error
\* without an iterator.
C19_IndexSelection ==
    res.op = "findIndex"
        => IF Begins(SubSeq(res.tdef.Cols, 1, res.tdef.PKeys), res.keys)
           THEN res.out = [idx |-> -1, err |-> ""]
           ELSE IF Matching(res.tdef, res.keys) # {}
           THEN /\ res.out.err = ""
                /\ res.out.idx \in Matching(res.tdef, res.keys)
                /\ \A i \in Matching(res.tdef, res.keys) :
                       Len(res.tdef.Indexes[res.out.idx + 1]) <= Len(res.tdef.Indexes[i + 1])
           ELSE /\ res.out.err = "no index found"
                /\ res.scan.err = "no index found"
                /\ res.scan.iter = BIter0

\* two indexes begin with the query column, and the second, the shorter
\* one, was chosen
C19_Witness ==
    /\ res.op = "findIndex"
    /\ Cardinality(Matching(res.tdef, res.keys)) = 2
    /\ res.out.idx = 1
    /\ Len(res.tdef.Indexes[2]) < Len(res.tdef.Indexes[1])

\* C20: decodeValues(encodeValues(v)) = v for every INT64 cell and every
\* BYTES cell, of any length and with any first byte.
C20_EncodingRoundTrip ==
    res.op = "roundTrip" => (~res.panic /\ res.dec = res.v)

\* bytes.Compare(x, y) <= 0
RECURSIVE bytesLE(_, _)
bytesLE(x, y) ==
    IF x = <<>> THEN TRUE
    ELSE IF y = <<>> THEN FALSE
    ELSE IF x[1] # y[1] THEN x[1] < y[1]
    ELSE bytesLE(Tail(x), Tail(y))

\* the top byte of a two's complement number, as a signed number
signedTop(bytes) == IF bytes[1] >= 128 THEN bytes[1] - 256 ELSE bytes[1]

\* a <= b for two cells of one type: the numbers in numeric order, the
\* strings in the order of their bytes
cellLE(a, b) ==
    IF a.Type = TYPE_INT64
    THEN \/ signedTop(a.I64) < signedTop(b.I64)
         \/ signedTop(a.I64) = signedTop(b.I64) /\ bytesLE(Tail(a.I64), Tail(b.I64))
    ELSE bytesLE(a.Str, b.Str)

\* C21: the encoding of a key cell keeps the order: for two cells a, b of
\* one type, a <= b exactly when encode(a) <= encode(b) byte by byte, and
\* every cell can be encoded.
C21_OrderPreserving ==
    res.op = "encoded"
        => (~res.panic /\ (cellLE(res.a, res.b) <=> bytesLE(res.ea, res.eb)))

\* the same for the cells that escapeString can encode
C21_OrderOfEncoded ==
    (res.op = "encoded" /\ ~res.panic)
        => (cellLE(res.a, res.b) <=> bytesLE(res.ea, res.eb))

\* the names of the tables, and the definitions stored in a tree
TableNames == {StoredDefs[i].Name : i \in 1..Len(StoredDefs)}

StoredTables(t) == UNION {getTableDefDB(n, t) : n \in TableNames}

\* the prefixes of a table: of its rows and of its indexes
PrefixesOf(d) == {d.Prefix} \cup {d.IndexPrefix[i] : i \in 1..Len(d.IndexPrefix)}

\* the prefix that the row next_prefix of a tree gives to the next table
NextPrefix(t) ==
    newPrefix(dbGet(TDEF_META, Rec(<<"key">>, <<Str(StrRank("next_prefix"))>>), t))

\* the tables of a tree have 1 + |indexes| consecutive prefixes each, no two
\* tables share a prefix, and the prefixes given are those below next_prefix
Allocated(t) ==
    /\ \A d \in StoredTables(t) :
           PrefixesOf(d) = d.Prefix..(d.Prefix + Len(d.Indexes))
    /\ \A d1 \in StoredTables(t), d2 \in StoredTables(t) :
           d1.Name # d2.Name => PrefixesOf(d1) \cap PrefixesOf(d2) = {}
    /\ UNION {PrefixesOf(d) : d \in StoredTables(t)}
           = TABLE_PREFIX_MIN..(NextPrefix(t) - 1)

\* C22: after any sequence of table creations each table has consumed
\* 1 + |indexes| consecutive prefixes from next_prefix on, next_prefix has
\* advanced by as many, and the prefixes of all tables, @meta = 1 and
\* @table = 2 among them, are pairwise distinct; in the committed tree and
\* in the tree of the transaction between two calls.
C22_PrefixAllocation ==
    proc = "running"
        => /\ Allocated(ReaderTree(kv.root))
           /\ (wpc["w1"] = "active" /\ db.pc = "idle") => Allocated(tx["w1"])
           /\ (Booted /\ wpc["w1"] = "idle")
                 => {TDEF_META, TDEF_TABLE} \subseteq StoredTables(ReaderTree(kv.root))

\* two tables were created and committed after the catalog, one of them
\* with an index
C22_Witness ==
    /\ proc = "running" /\ Booted /\ wpc["w1"] = "idle"
    /\ Cardinality(StoredTables(ReaderTree(kv.root))) = 4
    /\ NextPrefix(ReaderTree(kv.root)) = TABLE_PREFIX_MIN + 5

\* TableNew has returned the error of tableDefCheck, before any write
Rejected == res.done /\ res.err = "invalid table definition"

\* C23: TableNew rejects every table definition whose number of primary
\* key columns is not 1, and stores nothing for it.
C23_PrimaryKeyCount ==
    (res.op = "TableNew" /\ res.def.PKeys # 1)
        => (Rejected /\ getTableDefDB(res.table, tx["w1"]) = {})

\* the same for the definitions with more than one primary key column
C23_MoreThanOne ==
    (res.op = "TableNew" /\ res.def.PKeys > 1)
        => (Rejected /\ res.why = "only one primary key is allowed")

\* the columns of a list
ColSet(cols) == {cols[i] : i \in 1..Len(cols)}

\* the primary key columns of a definition
PKeyCols(def) == {def.Cols[i] : i \in 1..Min(def.PKeys, Len(def.Cols))}

\* an index names a column that the table has not, or is as long as the
\* table once the primary key columns it lacks are counted in
BadIndex(def) ==
    \E i \in 1..Len(def.Indexes) :
        \/ ~(ColSet(def.Indexes[i]) \subseteq ColSet(def.Cols))
        \/ Len(def.Indexes[i]) + Cardinality(PKeyCols(def) \ ColSet(def.Indexes[i]))
               >= Len(def.Cols)

\* every index of a stored definition has the primary key columns
IndexesKeyed(d) ==
    \A i \in 1..Len(d.Indexes) : PKeyCols(d) \subseteq ColSet(d.Indexes[i])

\* C24: TableNew rejects a definition in which an index names a column
\* that is not in the table or, with the primary key columns it lacks, has
\* at least as many columns as the table; every index of a definition that
\* TableNew stores contains the primary key columns (read back in the
\* transaction that stored it).
C24_IndexDefinition ==
    res.op = "TableNew"
        => /\ BadIndex(res.def) => Rejected
           /\ db.pc = "TableNew" => IndexesKeyed(db.arg)
           /\ (res.done /\ res.err = "" /\ wpc["w1"] = "active")
                 => /\ getTableDefDB(res.table, tx["w1"]) # {}
                    /\ \A d \in getTableDefDB(res.table, tx["w1"]) :
                           /\ IndexesKeyed(d)
                           /\ Len(d.Indexes) = Len(res.def.Indexes)

\* a table with one primary key column and an index that does not name it
\* has been stored
C24_Witness ==
    /\ res.op = "TableNew" /\ res.done /\ res.err = "" /\ wpc["w1"] = "active"
    /\ res.def.PKeys = 1 /\ res.def.Indexes = <<(<<"cat">>)>>
    /\ \E d \in getTableDefDB(res.table, tx["w1"]) : d.Indexes = <<(<<"cat", "id">>)>>

\* a definition with an index as long as the table has been rejected
C24_Rejected ==
    /\ res.op = "TableNew" /\ Rejected
    /\ res.why = "index len should be shorter than columns"

\* the tables whose creation the transaction has seen, and those committed
Created(set) == {x.vals[1].v : x \in {y \in set : y.table = TDEF_TABLE.Name}}

\* a call of TableNew with a valid definition starts in this step
TableNewCalled ==
    /\ DBIdle("w1") /\ proc' = "running"
    /\ res'.op = "TableNew" /\ res'.why = ""
    /\ (res' # res \/ db'.pc = "TableNew")

\* the catalog initialisation runs on a database that has its tables
BootAgain ==
    /\ proc = "running" /\ Booting
    /\ {StrRank(BootNames[i]) : i \in 1..Len(BootNames)} \subseteq Created(rows.committed)

\* C25: TableNew of a name that is in the catalog fails with "table already
\* exists" and leaves the stored definition of that table and next_prefix
\* as they were; the catalog initialisation on a database that has its
\* tables changes nothing of what is committed.
C25_DuplicateTable ==
    [][/\ (TableNewCalled /\ StrRank(res'.table) \in Created(rows.tx))
            => /\ res'.done /\ res'.err = "table already exists"
               /\ getTableDefDB(res'.table, tx'["w1"]) = getTableDefDB(res'.table, tx["w1"])
               /\ NextPrefix(tx'["w1"]) = NextPrefix(tx["w1"])
               /\ DBView(tx'["w1"]) = DBView(tx["w1"])
       /\ (BootAgain /\ proc' = "running")
            => /\ file' = file
               /\ DBView(ReaderTree(kv'.root)) = DBView(ReaderTree(kv.root))
               /\ db'.boot > db.boot => res.err = "table already exists"]_vars

\* TableNew of a table created before has answered "table already exists"
C25_Witness ==
    /\ res.op = "TableNew" /\ res.done /\ res.err = "table already exists"
    /\ Booted /\ res.table \in {d.Name : d \in NewTables}

\* the catalog initialisation has run a second time, in a new process
C25_BootAgain ==
    /\ proc = "running" /\ Booted /\ used.crash > 0
    /\ res.op = "TableNew" /\ res.table = BootNames[Len(BootNames)]

\* the type numbers that a column may have: INT64, BYTES, FLOAT64, BOOLEAN
\* and DATETIME
ColumnTypes == TYPE_INT64..(TYPE_INT64 + 4)

\* TableNew was called with a table of NewTables whose second column was
\* given the type number t
TypedCall(t) ==
    /\ res.op = "TableNew"
    /\ \E base \in NewTables : res.def = [base EXCEPT !.Types[2] = t]

\* C26: TableNew accepts a definition whose column has one of the type
\* numbers 1 (INT64), 2 (BYTES), 3 (FLOAT64), 4 (BOOLEAN), 5 (DATETIME) and
\* rejects every other type number with "invalid data type".
C26_ColumnTypes ==
    \A t \in 0..MaxType :
        TypedCall(t)
            => IF t \in ColumnTypes
               THEN ~Rejected /\ res.why = ""
               ELSE Rejected /\ res.why = "invalid data type"

\* the same for the type numbers that are INT64, BYTES or none of the five
C26_KnownTypes ==
    \A t \in (0..MaxType) \ ((TYPE_BYTES + 1)..(TYPE_INT64 + 4)) :
        TypedCall(t)
            => IF t \in ColumnTypes
               THEN ~Rejected /\ res.why = ""
               ELSE Rejected /\ res.why = "invalid data type"

\* the pages of the committed tree
LivePages == treePages(kv.root, MaxPage)

\* the pages that the free list of a transaction hands out, Pop after Pop,
\* when no reader holds any of them back
RECURSIVE popAll(_, _)
popAll(t, fuel) ==
    IF fuel = 0 \/ Pop(t).panic \/ Pop(t).ret = 0 THEN {}
    ELSE {Pop(t).ret} \cup popAll(Pop(t), fuel - 1)

FreePages(t) == popAll([t EXCEPT !.free.minReader = MaxTx + MaxOps + 1], MaxPage)

\* the pages that the calls of the open transaction took from the list
PoppedPages == {lastPop.ptrs[i] : i \in 1..Len(lastPop.ptrs)}

\* C27: no page is at once in the committed tree and in the free list that
\* the next transaction (of this or of a reopened database) reads, and a
\* page that Pop handed to the open transaction is neither in the committed
\* tree nor any longer in the free list of that transaction.
C27_PageExclusivity ==
    proc = "running"
        => /\ LivePages \cap FreePages(BeginTX) = {}
           /\ \A w \in Writers :
                  (wpc[w] = "active" /\ lastOp \in {"Set", "Delete"})
                      => /\ PoppedPages \cap LivePages = {}
                         /\ PoppedPages \cap FreePages(tx[w]) = {}

\* the position of the first call of that name in the log, 0 if none
FirstCall(log, name) ==
    IF \E i \in 1..Len(log) : log[i] = name
    THEN CHOOSE i \in 1..Len(log) : log[i] = name /\ \A j \in 1..(i - 1) : log[j] # name
    ELSE 0

\* the dirty pages of the Commit are in the mapping
DirtyCopied ==
    \A p \in DOMAIN res.dirty : res.dirty[p] # Nil => pages[p] = res.dirty[p]

Registered(k) == {k.readers[i].id : i \in 1..Len(k.readers)}

ActiveReaders == {r \in DOMAIN reader : reader[r].active}

\* C29: EndRead(r) removes exactly reader r from the registry: afterwards
\* r is not registered and every other reader that has begun and not ended
\* still is, in every order in which the readers begin and end.
C29_ReaderRegistry ==
    [][\A r \in DOMAIN reader :
           (reader[r].active /\ ~reader'[r].active /\ proc' = "running")
               => /\ Registered(kv') = Registered(kv) \ {r}
                  /\ Len(kv'.readers) = Len(kv.readers) - 1
                  /\ Registered(kv') = ActiveReaders \ {r}]_vars

\* the smallest version of the readers that have begun and not ended, the
\* version of the KV when there is none
MinActive ==
    IF ActiveReaders = {} THEN kv.version
    ELSE CHOOSE v \in {reader[r].version : r \in ActiveReaders} :
             \A r \in ActiveReaders : v <= reader[r].version

\* C30: the minimum reader version that a writer takes at Begin is the
\* smallest snapshot version of the readers that have begun and not ended
\* at that moment, or the writer's own version when there is none.
C30_MinReader ==
    [][\A w \in Writers :
           (wpc[w] = "idle" /\ wpc'[w] = "active")
               => tx'[w].free.minReader = MinActive]_vars

\* the same for a Begin at which the registry holds exactly the readers
\* that have begun and not ended
C30_ExactRegistry ==
    [][\A w \in Writers :
           (wpc[w] = "idle" /\ wpc'[w] = "active" /\ Registered(kv) = ActiveReaders)
               => tx'[w].free.minReader = MinActive]_vars

\* the outcomes of KV.Commit, as lastOp records them
CommitOutcomes == {"CommitNoop", "CommitOk", "CommitFailed", "CommitError"}

\* C31: Commit of a write transaction to which no Set and no Delete was
\* applied since Begin releases the writer lock and leaves the published
\* root, the version, the free list metadata, the page count, the pages and
\* the master page as they were.
C31_NoopCommit ==
    [][(lastOp = "Begin" /\ writer # "none" /\ lastOp' \in CommitOutcomes)
          => /\ writer' = "none"
             /\ \A w \in Writers : wpc'[w] = "idle"
             /\ kv'.root = kv.root /\ kv'.version = kv.version
             /\ kv'.free = kv.free /\ kv'.flushed = kv.flushed
             /\ file' = file /\ pages' = pages]_vars

\* the second transaction of a process is committed without any write, after
\* the first one wrote once and was committed
C31_Witness ==
    /\ lastOp = "CommitNoop" /\ writer = "none"
    /\ kv.version = 1 /\ used.tx = 2 /\ used.ops = 1 /\ used.crash = 0

\* C32: an insert that makes a node exceed the page size splits it into at
\* most three nodes that fit in one page each: BTree.Insert of a key and a
\* value of valid sizes returns, and every node it handed to the page
\* allocator has at most BTREE_PAGE_SIZE bytes.
C32_SplitFits ==
    /\ (res.op = "Insert" /\ res.err = "") => lastOp # "InsertPanic"
    /\ \A w \in Writers :
           (proc = "running" /\ wpc[w] = "active")
               => \A p \in DOMAIN tx[w].updates :
                      nbytes(tx[w].updates[p]) <= BTREE_PAGE_SIZE

\* C33: the pages a write transaction adds to the free list come from the
\* old tree: none of them was appended by the transaction itself, and each
\* was a page of the tree, or a node of the free list, when it began.
C33_FreedFromOldTree ==
    [][\A p \in PageNos :
           (lastOp' # "Crash" /\ freedAt'[p] # freedAt[p])
               => /\ p < atBegin.flushed
                  /\ p \in atBegin.old]_vars

\* the keys of a node are strictly increasing
Increasing(node) ==
    \A i \in 1..(Len(node.kvs) - 1) : node.kvs[i].key < node.kvs[i + 1].key

\* every entry of an inner node has the first key of the child it points to
KeyedByKids(t, node) ==
    \A i \in 1..Len(node.kvs) :
        /\ nKeys(pageGet(t, node.kvs[i].ptr)) > 0
        /\ node.kvs[i].key = pageGet(t, node.kvs[i].ptr).kvs[1].key

CmpHolds(key, cmp, bound) ==
    CASE cmp = CMP_GE -> key >= bound
      [] cmp = CMP_GT -> key > bound
      [] cmp = CMP_LT -> key < bound
      [] cmp = CMP_LE -> key <= bound

\* the rows of a sequence whose primary key satisfies both bounds of a range
Between(seq, req) ==
    {seq[i] : i \in {j \in 1..Len(seq) :
                        /\ CmpHolds(Digit(seq[j][1]), req.Cmp1, Digit(req.Key1.Vals[1]))
                        /\ CmpHolds(Digit(seq[j][1]), req.Cmp2, Digit(req.Key2.Vals[1]))}}

\* C35: the Scanner is valid on exactly the rows whose key satisfies both
\* bounds as their comparison codes say: a scan that dbScan accepts yields
\* the rows between its bounds, each once, a bound with > or < excludes the
\* row at the bound, and a descending range yields its rows too.
C35_ScannerBounds ==
    (res.op = "DBScan" /\ res.found /\ res.err = "")
        => /\ ~res.panic
           /\ {res.rows[i] : i \in 1..Len(res.rows)} = Between(res.snap, res.req)
           /\ Len(res.rows) = Cardinality(Between(res.snap, res.req))

\* C36: the assertion of indexOp never fails: an insert, update, upsert or
\* delete whose primary row went through on a table with a secondary index
\* finds every step on the index done, and the call returns.
C36_IndexAssertion ==
    /\ lastOp # "IndexPanic"
    /\ (res.op = "Set" /\ res.indexed /\ res.err = "" /\ db.pc = "idle")
           => (res.done /\ ~res.panic /\ proc = "running")

\* the rows of the history that a get through the committed root finds
StoredRows(d) ==
    {x \in rows.committed :
         /\ x.table = d.Name
         /\ dbGet(d, Rec(<<d.Cols[1]>>, <<x.vals[1]>>), ReaderTree(kv.root)).ok
         /\ dbGet(d, Rec(<<d.Cols[1]>>, <<x.vals[1]>>), ReaderTree(kv.root)).rec.Vals
                = x.vals}

\* C37: an Insert, Update or Upsert that reports success has stored the
\* row: a get in the same write transaction returns it and, after Commit, a
\* get through the committed root returns it; a row whose encoded key is
\* longer than 1000 bytes or whose encoded value is longer than 3000 bytes is
\* reported as an error.
C37_SuccessMeansStored ==
    /\ (res.op = "Set" /\ res.mode >= 0 /\ db.pc = "idle")
          => \A d \in ResTdefs :
                 /\ (res.err = "" /\ res.done /\ ~res.panic)
                       => /\ res.got.ok
                          /\ res.got.rec
                                 = Rec(d.Cols, checkRecord(d, res.rec, Len(d.Cols)).vals)
                 /\ (/\ checkRecord(d, res.rec, Len(d.Cols)).err = ""
                     /\ \/ KeyLen(ResKey(d)) > BTREE_MAX_KEY_SIZE
                        \/ ValLen(ResVal(d)) > BTREE_MAX_VAL_SIZE)
                       => res.err # ""
    /\ (lastOp = "CommitOk" /\ proc = "running")
          => \A d \in db.tables :
                 \A x \in rows.committed : x.table = d.Name => x \in StoredRows(d)

\* the key of the row of a table in the catalog @table
CatalogKey(name) == encodeKey(TDEF_TABLE.Prefix, <<Str(StrRank(name))>>)

\* C38: the cache of table definitions of the DB holds no definition of a
\* table that the committed catalog lacks, and a write of a row to a table
\* that the catalog of the transaction lacks (its creation was aborted)
\* reports "table not found".
C38_CacheCoherent ==
    /\ \A d \in db.tables : getTableDefDB(d.Name, ReaderTree(kv.root)) = {d}
    /\ (res.op = "Set" /\ res.before[CatalogKey(res.table)] = -1)
          => res.err = "table not found"

Waiters(seq) == SelectSeq(seq, LAMBDA t : t \in db.pool.waited)

IsPrefix(a, b) == Len(a) <= Len(b) /\ a = SubSeq(b, 1, Len(a))

\* no body began twice, a task that is done began once, and at most
\* maxWorkers bodies run at a time
RunsOnce ==
    /\ \A t \in Tasks : /\ db.pool.runs[t] <= 1
                         /\ db.pool.task[t] = "done" => db.pool.runs[t] = 1
    /\ Cardinality({g \in Slots : db.pool.workers[g].pc = "running"}) <= MaxWorkers

\* the tasks passed to Submit whose body has not returned yet
Pending == {t \in Tasks : db.pool.task[t] \in {"sending", "held"}}

\* every task passed to Submit is executed in the end: whenever tasks are
\* pending, a state follows in which all the tasks passed to Submit so far
\* are done (a task that is done stays done)
AllExecuted == (Pending # {}) ~> (Pending = {})

\* C40 as stated: with Stop never called and tasks that return, every task
\* passed to Submit is executed in the end, exactly once, at most maxWorkers
\* tasks run at a time, and the bodies of the tasks that had to wait begin in
\* the order in which the tasks were submitted.
C40_StartedInOrder ==
    /\ [](RunsOnce /\ IsPrefix(Waiters(db.pool.started), Waiters(db.pool.submitted)))
    /\ AllExecuted

\* C40: with Stop never called and tasks that return, every task passed to
\* Submit is executed in the end, exactly once, at most maxWorkers tasks run
\* at a time, and the tasks that had to wait are given to the workers in the
\* order in which they were submitted.
C40_RunsEveryTaskOnce ==
    /\ [](RunsOnce /\ IsPrefix(db.pool.handed, Waiters(db.pool.submitted)))
    /\ AllExecuted

\* all the tasks are done, each has run once, and two of them had to wait
\* for a worker
C40_Witness ==
    /\ \A t \in Tasks : db.pool.task[t] = "done" /\ db.pool.runs[t] = 1
    /\ Len(db.pool.handed) >= 2


====
